---- MODULE Spec2Model ----
EXTENDS Integers, Sequences, FiniteSets, TLC

(***************************************************************************)
(* RadioPlayer: the process manager (modules/ffmpeg_procman.py), the       *)
(* toplay active modifier (modules/active_modifier.py), the playout        *)
(* scheduler that drives them, and the control-file player                *)
(* (radioPlayer.py); the active modifier, the advisor (modules/advisor.py) *)
(* and the playlist parser (modules/playlist_parser.py) called alone; the   *)
(* inter-module bus (modules/__init__.py) and the playlist modifiers.       *)
(***************************************************************************)

\* ------------------------------------------------------------------ bounds
MaxProcs == 2
MaxTimeout == 2
Eps == 1
MaxPlays == 4
MaxEvents == 2
MaxInts == 2
MaxQueue == 4       \* lines of the queue file
MaxOriginals == 2   \* displaced playlist tracks the active modifier remembers
MaxMtime == 1       \* edits of one playlist file
MaxTicks == 1       \* hours the clock advances
MaxLines == 2       \* lines of a playlist file
MaxTracks == 3      \* tracks of a playlist handed to the modifiers

Procs == 1..MaxProcs
Threads == {"sched", "imc"}
NoThread == "none"
\* timeout: float | None  -- <<>> is None, <<n>> is n seconds
Timeouts == {<<>>} \cup {<<n>> : n \in 1..MaxTimeout}

VARIABLES
    processes,  \* ProcessManager.processes: the live set, a list of process ids
    palive,     \* per process: "unborn" | "running" | "exited" (Popen.poll())
    psig,       \* per process: last signal sent, "none" | "term" | "kill"
    lock,       \* ProcessManager.lock: the thread holding it, or NoThread
    thr,        \* per thread: the ProcessManager call in progress, with the
                \* seconds spent in its current wait (el) and since
                \* stop_all took the lock (since)
    clean,      \* no append since the last stop_all returned
    pmeta,      \* per process: its track's duration and the seconds it has played
    sch,        \* the playout scheduler: position in its loop and loop variables
    am,         \* the active modifier (modules/active_modifier.py Module)
    toplay,     \* the lines of /tmp/radioPlayer_toplay
    adv,        \* the advisor: last_mod_time of the playlist it advised
    env,        \* the disk: mtime of the playlist file, /tmp/radioPlayer_skip
    obs,        \* per observer: what it has been told so far
    hist,       \* what was played since the playlist was loaded
    leg,        \* the control-file player (radioPlayer.py): main's position,
                \* current_process, the interrupts received, the exit status
    now,        \* the wall clock: day of the week and hour
    qfile,      \* /tmp/radioPlayer_toplay as raw lines, blank lines included
    fs,         \* the advisor's disk: the override list and the band files
    par,        \* the playlist files on disk and the file handed to parse()
    ret,        \* the last module call made and what it returned
    imc,        \* the bus: the modules it was built over and its name table
    mod         \* the playlist and the global arguments handed to the modifiers

pmVars == <<processes, palive, psig, lock, thr, clean>>
coreVars == <<pmeta, sch, am, toplay, adv, env, obs, hist, leg>>
coreVarsButAM == <<pmeta, sch, toplay, adv, env, obs, hist, leg>>
coreVarsButAdv == <<pmeta, sch, am, toplay, env, obs, hist, leg>>

pureVars == <<now, qfile, fs, par, ret, imc, mod>>

vars == <<pmVars, coreVars, pureVars>>

\* ------------------------------------------------------------- helpers
Range(s) == {s[k] : k \in 1..Len(s)}

RECURSIVE SelectSeqBy(_, _)
SelectSeqBy(s, keep) ==
    IF s = <<>> THEN <<>>
    ELSE IF Head(s) \in keep THEN <<Head(s)>> \o SelectSeqBy(Tail(s), keep)
         ELSE SelectSeqBy(Tail(s), keep)

Running == {p \in DOMAIN palive : palive[p] = "running"}
Unborn == {p \in DOMAIN palive : palive[p] = "unborn"}

IdleThread == [op |-> "none", pc |-> "idle", i |-> 0, tmo |-> <<>>, el |-> 0,
               p |-> 0, snap |-> {}, since |-> 0, res |-> "none", clean |-> FALSE]

\* the call of thread t returns (or raises) with result r
Return(t, r) == [IdleThread EXCEPT !.op = thr[t].op, !.res = r]

\* ------------------------------------------------------------- tracks
\* Track(path, fade_out, fade_in, official, args, focus_time_offset=...)
Track(path, fade_out, fade_in, official, fto) ==
    [path |-> path, fade_out |-> fade_out, fade_in |-> fade_in,
     official |-> official, fto |-> fto]

\* Python's None where a Track is expected
NoneT == Track("None", 0, 0, FALSE, 0)

\* module-level default of the crossfade length, in seconds
DEFAULT_CROSSFADE == 5

\* the duration the probe reports for each media file on disk
Duration(path) == CASE path = "A" -> 2 [] OTHER -> 1

\* a line of the toplay file: a glob pattern, with or without a leading "!"
Line(bang, pat) == [bang |-> bang, pat |-> pat]
Lines == {Line(FALSE, "J"), Line(TRUE, "K"), Line(FALSE, "G"), Line(FALSE, "M")}

\* glob.glob(pattern) filtered by os.path.isfile: "J" and "K" are files,
\* "G" is a pattern that matches both, "M" matches nothing
Glob(pat) == CASE pat = "J" -> <<"J">> [] pat = "K" -> <<"K">>
               [] pat = "G" -> <<"J", "K">> [] OTHER -> <<>>

\* [('!' if s.startswith('!') else '') + f for f in glob.glob(s.removeprefix("!"))]
ExpandLine(l) == [k \in 1..Len(Glob(l.pat)) |-> Line(l.bang, Glob(l.pat)[k])]

\* songs[:] = [... for s in songs for f in glob.glob(...) if os.path.isfile(f)]
RECURSIVE Expand(_)
Expand(file) ==
    IF file = <<>> THEN <<>> ELSE ExpandLine(Head(file)) \o Expand(Tail(file))

\* ----------------------------------- active modifier (code): Module.play
\* the first queued song is left in the list
NoPop(songs) == songs

\* get_song(pop=True): songs.pop(0)
Pop(songs) == Tail(songs)

\* the track is appended also when it is already on top
PushAlways(originals, track) == Append(originals, track)

\* if not self.originals or self.originals[-1] != track: self.originals.append(track)
PushOriginal(originals, track) ==
    IF originals = <<>> \/ originals[Len(originals)] /= track
    THEN Append(originals, track) ELSE originals

\* last_track_fade_out, from self.last_track or the playlist entry before index
LastFadeOut(st, index) ==
    IF st.last_track /= NoneT THEN st.last_track.fade_out
    ELSE IF index - 1 >= 0 /\ index <= Len(st.playlist) THEN st.playlist[index].fade_out
    ELSE 0

\* the branch "if len(songs):" up to the skip_next test
Substitute(st, file, index, track, next_track) ==
    LET songs0 == Expand(file)
        song == Head(songs0)                      \* song, official = get_song()
        official == ~song.bang
        songs == Pop(songs0)
        lfo == LastFadeOut(st, index)
        originals == PushOriginal(st.originals, track)
        fade_in == IF official THEN lfo ELSE 0
        new_official == ~Head(songs).bang          \* get_song(False)
        cf == IF official /\ new_official THEN st.crossfade ELSE 0
        nfo == IF new_official THEN st.crossfade ELSE 0
        nfi == IF next_track /= NoneT THEN next_track.fade_in ELSE st.crossfade
        fade_out == IF official THEN nfi ELSE 0
        last == IF songs /= <<>> THEN Track(song.pat, cf, fade_in, official, -cf)
                ELSE Track(song.pat, fade_out, fade_in, official, -fade_out)
        nxt == IF songs /= <<>> THEN Track(Head(songs).pat, nfo, cf, new_official, -cf)
               ELSE track
    IN [st |-> [st EXCEPT !.originals = originals, !.last_track = last,
                          !.limit_tracks = FALSE, !.skip_next = FALSE],
        file |-> songs, cur |-> last, nxt |-> nxt, ext |-> TRUE,
        again |-> st.skip_next]

\* the front of originals is played and left in the list
PassthroughKeeps(st, file, track, next_track, bleeds) ==
    LET last == IF st.originals /= <<>> THEN Head(st.originals) ELSE track
        nxt == IF st.originals /= <<>> THEN Head(st.originals) ELSE next_track
        st1 == [st EXCEPT !.last_track = last, !.limit_tracks = st.can_limit_tracks]
    IN IF st1.limit_tracks /\ bleeds
       THEN [st |-> st1, file |-> file, cur |-> NoneT, nxt |-> NoneT, ext |-> FALSE,
             again |-> FALSE]
       ELSE IF st1.skip_next
       THEN [st |-> [st1 EXCEPT !.skip_next = FALSE], file |-> file,
             cur |-> NoneT, nxt |-> NoneT, ext |-> FALSE, again |-> FALSE]
       ELSE [st |-> st1, file |-> file, cur |-> last, nxt |-> nxt, ext |-> FALSE,
             again |-> FALSE]

\* the branches "elif len(self.originals):" and "else:", and what follows them;
\* bleeds: the time-bleed test on the track's duration and the clock succeeds
Passthrough(st, file, track, next_track, bleeds) ==
    LET last == IF st.originals /= <<>> THEN Head(st.originals) ELSE track
        originals == IF st.originals /= <<>> THEN Tail(st.originals) ELSE st.originals
        nxt == IF st.originals /= <<>> /\ originals /= <<>> THEN Head(originals)
               ELSE next_track
        st1 == [st EXCEPT !.originals = originals, !.last_track = last,
                          !.limit_tracks = st.can_limit_tracks]
    IN IF st1.limit_tracks /\ bleeds
       THEN [st |-> st1, file |-> file, cur |-> NoneT, nxt |-> NoneT, ext |-> FALSE,
             again |-> FALSE]
       ELSE IF st1.skip_next
       THEN [st |-> [st1 EXCEPT !.skip_next = FALSE], file |-> file,
             cur |-> NoneT, nxt |-> NoneT, ext |-> FALSE, again |-> FALSE]
       ELSE [st |-> st1, file |-> file, cur |-> last, nxt |-> nxt, ext |-> FALSE,
             again |-> FALSE]

\* a queued song is tried against the time-bleed guard like any other track
PlayOnceGuarded(st, file, index, track, next_track, bleeds) ==
    IF st.playlist = <<>>
    THEN [st |-> st, file |-> file, cur |-> track, nxt |-> next_track, ext |-> FALSE,
          again |-> FALSE]
    ELSE IF Expand(file) /= <<>> /\ ~(st.can_limit_tracks /\ bleeds)
    THEN Substitute(st, file, index, track, next_track)
    ELSE Passthrough(st, file, track, next_track, bleeds)

\* one activation of play(); again: it ended with "return self.play(...)"
PlayOnce(st, file, index, track, next_track, bleeds) ==
    IF st.playlist = <<>>
    THEN [st |-> st, file |-> file, cur |-> track, nxt |-> next_track, ext |-> FALSE,
          again |-> FALSE]
    ELSE IF Expand(file) /= <<>> THEN Substitute(st, file, index, track, next_track)
    ELSE Passthrough(st, file, track, next_track, bleeds)

\* Module.play(index, track, next_track): the state and the file afterwards,
\* and the value returned, ((cur, nxt), ext); cur = NoneT is ((None, None), None)
Play(st, file, index, track, next_track, bleeds) ==
    LET r == PlayOnce(st, file, index, track, next_track, bleeds)
    IN IF r.again THEN PlayOnce(r.st, r.file, index, track, r.nxt, bleeds) ELSE r

\* Module.__init__
AMInit == [playlist |-> <<>>, originals |-> <<>>, last_track |-> NoneT,
           limit_tracks |-> FALSE, can_limit_tracks |-> FALSE,
           morning_start |-> 0, day_end |-> 0,
           crossfade |-> DEFAULT_CROSSFADE, skip_next |-> FALSE]

\* Module.on_new_playlist: unpacking the advisor's reply (its custom_playlist,
\* a Path or None) into three names raises, so the limit flags keep their values
OnNewPlaylist(st, playlist, gargs) ==
    [st EXCEPT !.playlist = playlist, !.originals = <<>>,
               !.crossfade = IF gargs = <<>> THEN DEFAULT_CROSSFADE ELSE gargs[1]]

\* what an advisor answers to the active modifier's IMC request: a triple
\* <<custom playlist in effect, morning_start, day_end>>, or a value that does
\* not unpack into three names (advisor.py imc_data: self.custom_playlist)
NoReply == <<>>

\* Module.on_new_playlist with the advisor's reply as an input: the tuple
\* assignment either binds all three names or raises before binding any
on_new_playlist(st, playlist, gargs, reply) ==
    LET st1 == OnNewPlaylist(st, playlist, gargs)
    IN IF Len(reply) /= 3 THEN st1
       ELSE [st1 EXCEPT !.limit_tracks = ~reply[1], !.can_limit_tracks = ~reply[1],
                        !.morning_start = reply[2], !.day_end = reply[3]]

\* datetime.hour and the calendar day of a local timestamp in seconds
Hour(t) == (t \div 3600) % 24
Day(t) == t \div 86400

\* the time-bleed test of play(): future = now + duration; the track is skipped
\* when it lasts more than 5*60 seconds and the hour passes morning_start or
\* day_end, or the day changes
TimeBleed(st, t, dur) ==
    /\ dur /= 0
    /\ dur > 5 * 60
    /\ \/ Hour(t) < st.morning_start /\ Hour(t + dur) >= st.morning_start
       \/ Hour(t) < st.day_end /\ Hour(t + dur) >= st.day_end
       \/ Day(t + dur) /= Day(t)

\* ------------------------ active modifier (code): the queue file as text
\* an empty line of the file
Blank == Line(FALSE, "")

NonBlank(l) == l /= Blank

\* [s.strip() for s in f.readlines() if s.strip()]
Entries(raw) == SelectSeq(raw, NonBlank)

\* f.write('\n'.join(songs)); f.write("\n"), read back as lines
Rewritten(songs) == IF songs = <<>> THEN <<Blank>> ELSE songs

\* for song_path in songs_to_add: f.write(f"\n{song_path}\n")
RECURSIVE Written(_)
Written(songs) ==
    IF songs = <<>> THEN <<>> ELSE <<Blank, Head(songs)>> \o Written(Tail(songs))

\* imc_data "add_to_toplay": in front of the old text, or appended to it
add_to_toplay(raw, songs, at_top) ==
    IF at_top THEN Written(songs) \o raw ELSE raw \o Written(songs)

\* first_line after "while not first_line.strip() and i < 3: readline()":
\* the first non-blank line among the first three, else blank
RECURSIVE FirstLine(_, _)
FirstLine(raw, i) ==
    IF i >= 3 \/ raw = <<>> THEN Blank
    ELSE IF NonBlank(Head(raw)) THEN Head(raw)
    ELSE FirstLine(Tail(raw), i + 1)

\* imc_data "clear_toplay": f.write(first_line.strip() + "\n")
clear_toplay(raw) == <<FirstLine(raw, 0)>>

\* imc_data "skip_next": if data.get("set", True): toggle
skip_next(st, set) == [st EXCEPT !.skip_next = IF set THEN ~@ ELSE @]


\* ------------------------------------------------ ProcessManager (code)
\* the lock does not exclude: every acquire succeeds at once
CanAcquireAlways(t) == TRUE

\* Lock.acquire(): blocks until no thread holds the lock
CanAcquire(t) == lock = NoThread

\* Popen.terminate(): SIGTERM, sent only while poll() is None
Terminate(p) ==
    psig' = IF palive[p] = "running" THEN [psig EXCEPT ![p] = "term"] ELSE psig

\* Popen.kill(): SIGKILL, sent only while poll() is None; the process dies
Kill(p) ==
    /\ psig' = IF palive[p] = "running" THEN [psig EXCEPT ![p] = "kill"] ELSE psig
    /\ palive' = [palive EXCEPT ![p] = "exited"]

\* every process is kept, exited or not
ReapNone(ps) == ps

\* [p for p in self.processes if p.process.poll() is None]
Reap(ps) == SelectSeqBy(ps, Running)

\* the list is left as it is
NotCleared(ps) == ps

\* self.processes.clear()
Cleared(ps) == <<>>

\* a thread calls one of the four public operations
Call(t) ==
    /\ thr[t].pc = "idle"
    /\ \E op \in {"play", "anything_playing", "stop_all", "wait_all"}, tmo \in Timeouts :
         /\ op = "play" => Unborn /= {}
         /\ op \in {"play", "anything_playing"} => tmo = <<>>
         /\ thr' = [thr EXCEPT ![t] = [IdleThread EXCEPT !.op = op, !.tmo = tmo,
                        !.pc = CASE op = "play" -> "play_probe"
                                 [] op = "anything_playing" -> "ap_lock"
                                 [] op = "stop_all" -> "sa_lock"
                                 [] OTHER -> "wa_lock"]]
    /\ UNCHANGED <<processes, palive, psig, lock, clean, coreVars, pureVars>>

\* the decoder is started before the probe, which fails
PlayProbeLate(t) ==
    /\ thr[t].pc = "play_probe"
    /\ Unborn /= {}
    /\ palive' = [palive EXCEPT ![CHOOSE q \in Unborn : \A r \in Unborn : q <= r] = "running"]
    /\ thr' = [thr EXCEPT ![t] = Return(t, "error")]
    /\ UNCHANGED <<processes, psig, lock, clean, coreVars, pureVars>>

\* play: assert track.path.exists(); duration = ...; if not duration: raise
PlayProbe(t) ==
    /\ thr[t].pc = "play_probe"
    /\ \/ thr' = [thr EXCEPT ![t].pc = "play_spawn"]
       \/ thr' = [thr EXCEPT ![t] = Return(t, "error")]
    /\ UNCHANGED <<processes, palive, psig, lock, clean, coreVars, pureVars>>

\* play: pr = Process(Popen(cmd, ...), track, time.monotonic(), ...)
PlaySpawn(t) ==
    /\ thr[t].pc = "play_spawn"
    /\ Unborn /= {}
    /\ LET p == CHOOSE q \in Unborn : \A r \in Unborn : q <= r IN
         /\ palive' = [palive EXCEPT ![p] = "running"]
         /\ thr' = [thr EXCEPT ![t].pc = "play_lock", ![t].p = p]
    /\ UNCHANGED <<processes, psig, lock, clean, coreVars, pureVars>>

\* play: with self.lock:
PlayLock(t) ==
    /\ thr[t].pc = "play_lock"
    /\ CanAcquire(t)
    /\ lock' = t
    /\ thr' = [thr EXCEPT ![t].pc = "play_append"]
    /\ UNCHANGED <<processes, palive, psig, clean, coreVars, pureVars>>

\* play: self.processes.append(pr); return pr
PlayAppend(t) ==
    /\ thr[t].pc = "play_append"
    /\ processes' = Append(processes, thr[t].p)
    /\ lock' = NoThread
    /\ clean' = FALSE
    /\ thr' = [thr EXCEPT ![t] = Return(t, "ok")]
    /\ UNCHANGED <<palive, psig, coreVars, pureVars>>

\* anything_playing: with self.lock:
APLock(t) ==
    /\ thr[t].pc = "ap_lock"
    /\ CanAcquire(t)
    /\ lock' = t
    /\ thr' = [thr EXCEPT ![t].pc = "ap_reap"]
    /\ UNCHANGED <<processes, palive, psig, clean, coreVars, pureVars>>

\* anything_playing: self.processes = [...]; return bool(self.processes)
APReap(t) ==
    /\ thr[t].pc = "ap_reap"
    /\ processes' = Reap(processes)
    /\ lock' = NoThread
    /\ thr' = [thr EXCEPT ![t] = [Return(t, IF Reap(processes) /= <<>> THEN "true" ELSE "false")
                                   EXCEPT !.clean = clean]]
    /\ UNCHANGED <<palive, psig, clean, coreVars, pureVars>>

\* stop_all: with self.lock:
SALock(t) ==
    /\ thr[t].pc = "sa_lock"
    /\ CanAcquire(t)
    /\ lock' = t
    /\ thr' = [thr EXCEPT ![t].pc = "sa_term", ![t].i = 1,
                          ![t].snap = Range(processes), ![t].since = 0]
    /\ UNCHANGED <<processes, palive, psig, clean, coreVars, pureVars>>

\* stop_all: for process in self.processes: process.process.terminate()
SATerm(t) ==
    /\ thr[t].pc = "sa_term"
    /\ thr[t].i <= Len(processes)
    /\ Terminate(processes[thr[t].i])
    /\ thr' = [thr EXCEPT ![t].pc = "sa_wait", ![t].el = 0]
    /\ UNCHANGED <<processes, palive, lock, clean, coreVars, pureVars>>

\* stop_all: process.process.wait(timeout) returns: the process has exited
SAWaitExit(t) ==
    /\ thr[t].pc = "sa_wait"
    /\ thr[t].i <= Len(processes)
    /\ palive[processes[thr[t].i]] = "exited"
    /\ thr' = [thr EXCEPT ![t].pc = "sa_term", ![t].i = @ + 1]
    /\ UNCHANGED <<processes, palive, psig, lock, clean, coreVars, pureVars>>

\* the deadline of the wait(timeout) of thread t has been reached
Expired(t) ==
    /\ thr[t].pc \in {"sa_wait", "wa_wait"}
    /\ thr[t].tmo /= <<>>
    /\ thr[t].el >= thr[t].tmo[1]

\* stop_all: except subprocess.TimeoutExpired: process.process.kill()
SAWaitTimeout(t) ==
    /\ thr[t].pc = "sa_wait"
    /\ thr[t].i <= Len(processes)
    /\ Expired(t)
    /\ palive[processes[thr[t].i]] = "running"
    /\ Kill(processes[thr[t].i])
    /\ thr' = [thr EXCEPT ![t].pc = "sa_term", ![t].i = @ + 1]
    /\ UNCHANGED <<processes, lock, clean, coreVars, pureVars>>

\* stop_all: self.processes.clear(), leaving the with block
SAClear(t) ==
    /\ thr[t].pc = "sa_term"
    /\ thr[t].i > Len(processes)
    /\ processes' = Cleared(processes)
    /\ lock' = NoThread
    /\ clean' = TRUE
    /\ thr' = [thr EXCEPT ![t] = Return(t, "ok")]
    /\ UNCHANGED <<palive, psig, coreVars, pureVars>>

\* wait_all: with self.lock:
WALock(t) ==
    /\ thr[t].pc = "wa_lock"
    /\ CanAcquire(t)
    /\ lock' = t
    /\ thr' = [thr EXCEPT ![t].pc = "wa_wait", ![t].i = 1, ![t].el = 0]
    /\ UNCHANGED <<processes, palive, psig, clean, coreVars, pureVars>>

\* wait_all: process.process.wait(timeout) returns: the process has exited
WAWaitExit(t) ==
    /\ thr[t].pc = "wa_wait"
    /\ thr[t].i <= Len(processes)
    /\ palive[processes[thr[t].i]] = "exited"
    /\ thr' = [thr EXCEPT ![t].i = @ + 1, ![t].el = 0]
    /\ UNCHANGED <<processes, palive, psig, lock, clean, coreVars, pureVars>>

\* wait_all: except subprocess.TimeoutExpired: process.process.terminate()
WAWaitTimeout(t) ==
    /\ thr[t].pc = "wa_wait"
    /\ thr[t].i <= Len(processes)
    /\ Expired(t)
    /\ palive[processes[thr[t].i]] = "running"
    /\ Terminate(processes[thr[t].i])
    /\ thr' = [thr EXCEPT ![t].i = @ + 1, ![t].el = 0]
    /\ UNCHANGED <<processes, palive, lock, clean, coreVars, pureVars>>

\* wait_all: self.processes.clear(), leaving the with block
WAClear(t) ==
    /\ thr[t].pc = "wa_wait"
    /\ thr[t].i > Len(processes)
    /\ processes' = Cleared(processes)
    /\ lock' = NoThread
    /\ thr' = [thr EXCEPT ![t] = Return(t, "ok")]
    /\ UNCHANGED <<palive, psig, clean, coreVars, pureVars>>

\* a decoder exits: its track ended, it crashed, or it honoured SIGTERM
ProcExit(p) ==
    /\ palive[p] = "running"
    /\ palive' = [palive EXCEPT ![p] = "exited"]
    /\ UNCHANGED <<processes, psig, lock, thr, clean, coreVars, pureVars>>

\* one second passes; a wait(timeout) whose deadline is reached returns first
Waiting(t) == thr[t].pc \in {"sa_wait", "wa_wait"} /\ thr[t].tmo /= <<>>

Tick ==
    /\ \E t \in Threads : Waiting(t)
    /\ \A t \in Threads : ~Expired(t)
    /\ thr' = [t \in Threads |->
                 IF Waiting(t) THEN [thr[t] EXCEPT !.el = @ + 1, !.since = @ + 1]
                 ELSE thr[t]]
    /\ UNCHANGED <<processes, palive, psig, lock, clean, coreVars, pureVars>>

\* ------------------------------------------ advisor (code): the time bands
MORNING_START == 5
MORNING_END == 10
DAY_START == 10
DAY_END == 18
LATE_NIGHT_START == 0
LATE_NIGHT_END == 5

\* ------------------------------------------------ playlist parser (code)
\* a line of text is a sequence of characters, a file a sequence of lines,
\* a path the sequence of characters of its name

\* s.find(c) + 1: the first position of character c in s, 0 when absent
IndexOf(s, c) ==
    IF \E i \in 1..Len(s) : s[i] = c
    THEN CHOOSE i \in 1..Len(s) : s[i] = c /\ \A j \in 1..(i - 1) : s[j] /= c
    ELSE 0

\* s.startswith(c)
StartsWith(s, c) == s /= <<>> /\ Head(s) = c

\* s.split(c)
RECURSIVE Split(_, _)
Split(s, c) ==
    LET i == IndexOf(s, c)
    IN IF i = 0 THEN <<s>>
       ELSE <<SubSeq(s, 1, i - 1)>> \o Split(SubSeq(s, i + 1, Len(s)), c)

\* arguments[key] = val, a later value replacing an earlier one
Put(d, key, val, bare) ==
    {e \in d : e.key /= key} \cup {[key |-> key, val |-> val, bare |-> bare]}

\* for arg in args: key, val = arg.split("=", 1), or arguments[arg] = True
RECURSIVE Arguments(_, _)
Arguments(args, d) ==
    IF args = <<>> THEN d
    ELSE LET arg == Head(args)
             i == IndexOf(arg, "=")
         IN Arguments(Tail(args),
                IF i /= 0 THEN Put(d, SubSeq(arg, 1, i - 1), SubSeq(arg, i + 1, Len(arg)), FALSE)
                ELSE Put(d, arg, <<>>, TRUE))

\* path.exists(): every playlist file is on disk, except the one named "m"
OnDisk(path) == path /= <<"m">>

\* [f for f in glob.glob(line) if Path(f).is_file()]: "J" is the one media file
GlobFiles(line) == IF line = <<"J">> THEN <<line>> ELSE <<>>

\* [line.strip() for line in path.read_text().splitlines() if line.strip()]
NonEmptyLine(line) == line /= <<>>
ReadLines(disk, path) == SelectSeq(disk[path], NonEmptyLine)

\* the caller does not see the targets a nested call has added to seen
SeenCopied(before, after) == before

\* seen is one set object shared by all the nested calls
SeenShared(before, after) == after

\* the missing target ends the parse
MissingTargetRaises == FALSE

\* "continue" after the error message for a missing target
MissingTargetSkipped == TRUE

\* the lines of an imported file are put after the importing file's own lines
AppendAfter(sub, rest) == rest \o sub

\* out.extend(self._check_for_imports(target, seen)) before the later lines
Extend(sub, rest) == sub \o rest

\* PlaintextParser._check_for_imports(path, seen), from line i of the file on:
\* out, each line with the file and the line numbers it was reached by (at);
\* seen afterwards; the targets recursed into (calls); whether it returned (ok)
RECURSIVE check_for_imports(_, _, _, _, _)
check_for_imports(disk, path, i, seen, at) ==
    LET lines == ReadLines(disk, path)
        line == lines[i]
        target == Tail(line)
        skip == check_for_imports(disk, path, i + 1, seen, at)
        sub == check_for_imports(disk, target, 1, seen \cup {target}, at \o <<i>>)
        rest == check_for_imports(disk, path, i + 1,
                                  SeenShared(seen \cup {target}, sub.seen), at)
        more == check_for_imports(disk, path, i + 1, seen, at)
    IN IF i > Len(lines) THEN [out |-> <<>>, seen |-> seen, calls |-> <<>>, ok |-> TRUE]
       ELSE IF StartsWith(line, "@")
       THEN IF target \notin seen
            THEN IF ~OnDisk(target)
                 THEN [skip EXCEPT !.ok = @ /\ MissingTargetSkipped]
                 ELSE [out |-> Extend(sub.out, rest.out), seen |-> rest.seen,
                       calls |-> <<target>> \o sub.calls \o rest.calls,
                       ok |-> sub.ok /\ rest.ok]
            ELSE skip
       ELSE [more EXCEPT !.out = <<[line |-> line, at |-> at \o <<i>>]>> \o @]

\* one line of parse()'s loop: nothing for a comment, else the entry
\* (files, arguments) appended to out
Entry(l) ==
    LET line == l.line
        bar == IndexOf(line, "|")
    IN IF line = <<>> \/ StartsWith(line, ";") \/ StartsWith(line, "#") THEN <<>>
       ELSE IF bar = 0
       THEN <<[files |-> GlobFiles(line), args |-> {}, from |-> l]>>
       ELSE IF StartsWith(line, "|")
       THEN <<[files |-> GlobFiles(line),
               args |-> Arguments(Split(Tail(line), ";"), {}), from |-> l]>>
       ELSE <<[files |-> GlobFiles(SubSeq(line, 1, bar - 1)),
               args |-> Arguments(Split(SubSeq(line, bar + 1, Len(line)), ";"), {}),
               from |-> l]>>

RECURSIVE EntriesOf(_)
EntriesOf(ls) == IF ls = <<>> THEN <<>> ELSE Entry(Head(ls)) \o EntriesOf(Tail(ls))

\* PlaintextParser.parse(playlist_path): (global_arguments, out), or an
\* exception (ok = FALSE); global_arguments is returned as it was created
parse(disk, path) ==
    IF ~OnDisk(path)
    THEN [op |-> "parse", ok |-> FALSE, global_args |-> {}, out |-> <<>>,
          lines |-> <<>>, calls |-> <<>>]
    ELSE LET r == check_for_imports(disk, path, 1, {}, <<>>)
         IN IF ~r.ok
            THEN [op |-> "parse", ok |-> FALSE, global_args |-> {}, out |-> <<>>,
                  lines |-> <<>>, calls |-> r.calls]
            ELSE [op |-> "parse", ok |-> TRUE, global_args |-> {},
                  out |-> EntriesOf(r.out), lines |-> r.out, calls |-> r.calls]

\* ------------------------------------------------------- advisor (code)
\* datetime.now().strftime('%A').lower(), by day of the week
Weekdays == <<"monday", "tuesday", "wednesday", "thursday", "friday",
              "saturday", "sunday">>
Bands == {"late_night", "morning", "day", "night"}

\* Path(playlist_dir, current_day, band): a directory and a file name
BandFile(day, band) == [day |-> day, band |-> band]
\* self.custom_playlist_path, /tmp/radioPlayer_list
OverridePath == BandFile("/tmp", "radioPlayer_list")
\* Python's None where a path is expected
NoPath == BandFile("None", "None")

\* hour 18 still selects the day list
BandOfLateDay(h) ==
    IF DAY_START <= h /\ h <= DAY_END THEN "day"
    ELSE IF MORNING_START <= h /\ h < MORNING_END THEN "morning"
    ELSE IF LATE_NIGHT_START <= h /\ h < LATE_NIGHT_END THEN "late_night"
    ELSE "night"

\* the if/elif chain of advise() and of check_if_playlist_modifed()
BandOf(h) ==
    IF DAY_START <= h /\ h < DAY_END THEN "day"
    ELSE IF MORNING_START <= h /\ h < MORNING_END THEN "morning"
    ELSE IF LATE_NIGHT_START <= h /\ h < LATE_NIGHT_END THEN "late_night"
    ELSE "night"

\* the band list of the clock's day and hour
Selected(clock) == BandFile(Weekdays[clock.day], BandOf(clock.hour))

\* Module.__init__
AdvInit == [last_mod_time |-> 0, last_playlist |-> NoPath, custom_playlist |-> NoPath]

\* a file is on disk: the override list, or a band list of a day whose
\* directory advise() has filled
Exists(disk, path) ==
    IF path = OverridePath THEN disk.override
    ELSE IF path = NoPath THEN FALSE
    ELSE path.day \in disk.made

\* Time.get_playlist_modification_time: getmtime, 0 on OSError
get_playlist_modification_time(disk, path) ==
    IF Exists(disk, path) THEN disk.mtime[path] ELSE 0

\* check_if_playlist_modifed(playlist_path)
check_if_playlist_modifed(clock, path) == path /= Selected(clock)

\* Module.advise: the advisor afterwards, the disk afterwards (missing
\* directories and lists of the day are created), and the path returned
advise(a, disk, clock) ==
    IF a.custom_playlist /= NoPath
    THEN [adv |-> a, fs |-> disk, path |-> a.custom_playlist]
    ELSE IF disk.override
    THEN [adv |-> [a EXCEPT !.last_playlist = OverridePath,
                            !.custom_playlist = OverridePath],
          fs |-> disk, path |-> OverridePath]
    ELSE LET disk1 == [disk EXCEPT !.made = @ \cup {Weekdays[clock.day]}]
             file == Selected(clock)
         IN [adv |-> [a EXCEPT !.last_mod_time =
                                    get_playlist_modification_time(disk1, file),
                               !.last_playlist = file],
             fs |-> disk1, path |-> file]

\* Module.new_playlist
new_playlist(a, disk, clock) ==
    IF a.custom_playlist /= NoPath /\ disk.override THEN FALSE
    ELSE IF a.last_playlist = NoPath THEN TRUE
    ELSE IF check_if_playlist_modifed(clock, a.last_playlist) THEN TRUE
    ELSE get_playlist_modification_time(disk, a.last_playlist) > a.last_mod_time

\* ------------------------------------------------ advisor (code, mtime part)
\* the advisor never asks for a reload
NeverNewPlaylist == FALSE

\* Module.new_playlist: mod_time > self.last_mod_time
NewPlaylist == env.mtime > adv.last_mod_time

\* ------------------------------------------------- the playout scheduler
Observers == {"skipper", "web"}
Crossfades == {0, 1}
PlaylistPaths == {<<>>, <<"A", "B">>, <<"B">>}

\* the parser and the modifier chain: official tracks, faded by the crossfade
MkPlaylist(paths, cf) == [k \in 1..Len(paths) |-> Track(paths[k], cf, cf, TRUE, -cf)]

\* no decoder: nothing to play, nothing played
NoMeta == [dur |-> 0, age |-> 0]
\* what an observer has been told: on_new_playlist calls (pl) and on_new_track
\* calls (tr) for this playlist; for this step, the on_new_track calls (nt)
\* with their last arguments (idx, trk) and the progress calls (pg) with
\* their last arguments (pidx, ptrk, el, tot)
NoObs == [pl |-> 0, tr |-> 0, nt |-> 0, idx |-> 0, trk |-> "None",
          pg |-> 0, pidx |-> 0, ptrk |-> "None", el |-> 0, tot |-> 0]
\* since the playlist was loaded: the tracks started (played), the queue as
\* it was at the load (q0), whether nothing has disturbed the run (quiet), the
\* kinds of step taken (kinds); and the reloads since the start (reloads)
NoHist == [played |-> <<>>, q0 |-> <<>>, quiet |-> FALSE, kinds |-> {}, reloads |-> 0]

\* the observer is not told
NotTold(o) == o

\* on_new_playlist(playlist, global_args) is delivered to the observer
ToldPlaylist(o) == [o EXCEPT !.pl = @ + 1]

\* the seconds the decoder still has to play
Remaining(m) == m.dur - m.age

\* progress: elapsed = now - started_at
Elapsed(m) == m.age
SchInit == [pc |-> "idle", playlist |-> <<>>, gargs |-> <<>>, song_i |-> 0, i |-> 0,
            max_iterator |-> 0, cur |-> NoneT, nxt |-> NoneT, ext |-> FALSE,
            proc |-> 0, return_pending |-> FALSE]

\* the end of the focus window of the current track, in seconds played
FocusEnd == pmeta[sch.proc].dur + sch.cur.fto

\* Idle -> Loading: the advisor is asked for a playlist path
Advise ==
    /\ sch.pc = "idle"
    /\ adv' = [adv EXCEPT !.last_mod_time = env.mtime]
    /\ sch' = [sch EXCEPT !.pc = "loading", !.return_pending = FALSE]
    /\ UNCHANGED <<pmVars, pmeta, am, toplay, env, obs, hist, leg, pureVars>>

\* Loading: the parser fails; sleep 15 s, retry
ParseError ==
    /\ sch.pc = "loading"
    /\ sch' = [sch EXCEPT !.pc = "idle"]
    /\ UNCHANGED <<pmVars, pmeta, am, toplay, adv, env, obs, hist, leg, pureVars>>

\* Loading: parser ok, modifier chain; a playlist is produced
Load ==
    /\ sch.pc = "loading"
    /\ env.loads = 0 \/ env.events < MaxEvents
    /\ env' = [env EXCEPT !.loads = @ + 1,
                          !.events = IF env.loads = 0 THEN @ ELSE @ + 1]
    /\ \E paths \in PlaylistPaths, cf \in Crossfades :
         sch' = [sch EXCEPT !.pc = "notify", !.playlist = MkPlaylist(paths, cf),
                            !.gargs = <<cf>>]
    /\ obs' = [o \in Observers |-> [obs[o] EXCEPT !.pl = 0, !.tr = 0]]
    /\ hist' = [NoHist EXCEPT !.q0 = Expand(toplay), !.quiet = ~am.skip_next,
                              !.reloads = hist.reloads]
    /\ UNCHANGED <<pmVars, pmeta, am, toplay, adv, leg, pureVars>>

\* observers and the active modifier are told of the new playlist
NotifyPlaylist ==
    /\ sch.pc = "notify"
    /\ obs' = [o \in Observers |-> ToldPlaylist(obs[o])]
    /\ am' = OnNewPlaylist(am, sch.playlist, sch.gargs)
    /\ sch' = [sch EXCEPT !.pc = "boundary", !.song_i = 0, !.i = 0,
                          !.max_iterator = Len(sch.playlist)]
    /\ UNCHANGED <<pmVars, pmeta, toplay, adv, env, hist, leg, pureVars>>

\* the loop bound is reached: the playlist is over, ask the advisor again
Exhausted ==
    /\ sch.pc = "boundary"
    /\ sch.i >= sch.max_iterator
    /\ sch' = [sch EXCEPT !.pc = "idle"]
    /\ UNCHANGED <<pmVars, pmeta, am, toplay, adv, env, obs, hist, leg, pureVars>>

\* between steps: advisor.new_playlist() is true; set return_pending
Reload ==
    /\ sch.pc = "boundary"
    /\ sch.i < sch.max_iterator
    /\ NewPlaylist
    /\ sch' = [sch EXCEPT !.pc = "reloading", !.return_pending = TRUE]
    /\ hist' = [hist EXCEPT !.reloads = 1]
    /\ UNCHANGED <<pmVars, pmeta, am, toplay, adv, env, obs, leg, pureVars>>

\* the current process, if any, is still alive
CurrentAlive == IF sch.proc = 0 THEN FALSE ELSE palive[sch.proc] = "running"

\* Reloading: the current process is drained; back to Loading
Drained ==
    /\ sch.pc = "reloading"
    /\ ~CurrentAlive
    /\ sch' = [sch EXCEPT !.pc = "idle"]
    /\ UNCHANGED <<pmVars, pmeta, am, toplay, adv, env, obs, hist, leg, pureVars>>

\* the loop bound is left as it is
Unextended(max_iterator, ext) == max_iterator

\* the loop bound after a step: max_iterator += 1 when extend is true
Extended(max_iterator, ext) == IF ext THEN max_iterator + 1 ELSE max_iterator

\* playlist[song_i % N] and playlist[song_i + 1] or none
CurTrack == sch.playlist[(sch.song_i % Len(sch.playlist)) + 1]
NextTrack ==
    IF sch.song_i + 1 < Len(sch.playlist) THEN sch.playlist[sch.song_i + 2] ELSE NoneT

\* active_modifier.play(song_i, current, next)
StepResult == Play(am, toplay, sch.song_i, CurTrack, NextTrack, FALSE)

\* what the step did: it skipped, it played an inserted track, or it played
StepKind(r) == IF r.cur = NoneT THEN "skip" ELSE IF r.ext THEN "extend" ELSE "plain"

\* step 1: the active modifier is asked for the pair to use
Step ==
    /\ sch.pc = "boundary"
    /\ sch.i < sch.max_iterator
    /\ ~NewPlaylist
    /\ LET r == StepResult
       IN /\ am' = r.st
          /\ toplay' = r.file
          /\ sch' = IF r.cur = NoneT
                    THEN [sch EXCEPT !.song_i = @ + 1]
                    ELSE [sch EXCEPT !.pc = "announce", !.cur = r.cur, !.nxt = r.nxt,
                                     !.ext = r.ext,
                                     !.max_iterator = Extended(@, r.ext)]
          /\ hist' = [hist EXCEPT !.kinds = @ \cup {StepKind(r)}]
    /\ obs' = [o \in Observers |-> [obs[o] EXCEPT !.nt = 0, !.pg = 0, !.el = 0]]
    /\ UNCHANGED <<pmVars, pmeta, adv, env, leg, pureVars>>

\* step 2: on_new_track(song_i, current, next) to every observer
Announce ==
    /\ sch.pc = "announce"
    /\ obs' = [o \in Observers |->
                 [obs[o] EXCEPT !.tr = @ + 1, !.nt = @ + 1, !.idx = sch.song_i,
                                !.trk = sch.cur.path]]
    /\ sch' = [sch EXCEPT !.pc = "spawn"]
    /\ UNCHANGED <<pmVars, pmeta, am, toplay, adv, env, hist, leg, pureVars>>

\* step 7: i := i + 1; if not extend, song_i := song_i + 1
Advance(s) ==
    [s EXCEPT !.pc = "boundary", !.i = @ + 1,
              !.song_i = IF s.ext THEN @ ELSE @ + 1]

\* step 3: procman.play(current) starts a decoder, appended to the live set
Spawn ==
    /\ sch.pc = "spawn"
    /\ Unborn /= {}
    /\ LET p == CHOOSE q \in Unborn : \A r \in Unborn : q <= r IN
         /\ palive' = [palive EXCEPT ![p] = "running"]
         /\ processes' = Append(processes, p)
         /\ pmeta' = [pmeta EXCEPT ![p] = [dur |-> Duration(sch.cur.path), age |-> 0]]
         /\ sch' = [sch EXCEPT !.pc = "playing", !.proc = p]
    /\ hist' = [hist EXCEPT !.played = Append(@, sch.cur.path)]
    /\ clean' = FALSE
    /\ UNCHANGED <<psig, lock, thr, am, toplay, adv, env, obs, leg, pureVars>>

\* step 3 fails (the duration probe fails): log, skip the track, advance
SpawnFails ==
    /\ sch.pc = "spawn"
    /\ sch' = [Advance(sch) EXCEPT !.proc = 0]
    /\ hist' = [hist EXCEPT !.quiet = FALSE]
    /\ UNCHANGED <<pmVars, pmeta, am, toplay, adv, env, obs, leg, pureVars>>

\* step 5: progress(song_i, current, elapsed, total, real_total) to every
\* observer, then sleep
Progress ==
    /\ sch.pc = "playing"
    /\ palive[sch.proc] = "running"
    /\ pmeta[sch.proc].age < FocusEnd
    /\ obs' = [o \in Observers |->
                 [obs[o] EXCEPT !.pg = @ + 1, !.pidx = sch.song_i,
                                !.ptrk = sch.cur.path,
                                !.el = Elapsed(pmeta[sch.proc]),
                                !.tot = pmeta[sch.proc].dur]]
    /\ sch' = [sch EXCEPT !.pc = "sleeping"]
    /\ UNCHANGED <<pmVars, pmeta, am, toplay, adv, env, hist, leg, pureVars>>

\* step 5 ends (now >= end, or the process is not alive); steps 6 and 7
StepEnd ==
    /\ sch.pc = "playing"
    /\ palive[sch.proc] /= "running" \/ pmeta[sch.proc].age >= FocusEnd
    /\ sch' = Advance(sch)
    /\ UNCHANGED <<pmVars, pmeta, am, toplay, adv, env, obs, hist, leg, pureVars>>

\* one second passes while the scheduler sleeps; a decoder that has played
\* its whole track exits
Second ==
    /\ sch.pc \in {"sleeping", "reloading"}
    /\ sch.pc = "reloading" => CurrentAlive
    /\ pmeta' = [p \in DOMAIN pmeta |->
                   IF palive[p] = "running" /\ pmeta[p].age + 1 < pmeta[p].dur
                   THEN [pmeta[p] EXCEPT !.age = @ + 1] ELSE NoMeta]
    /\ palive' = [p \in DOMAIN palive |->
                   IF palive[p] = "running" /\ pmeta[p].age + 1 >= pmeta[p].dur
                   THEN "exited" ELSE palive[p]]
    /\ sch' = [sch EXCEPT !.pc = IF @ = "sleeping" THEN "playing" ELSE @]
    /\ UNCHANGED <<processes, psig, lock, thr, clean, am, toplay, adv, env, obs, hist, leg, pureVars>>

\* a decoder crashes in mid-track
Crash ==
    /\ sch.pc = "sleeping"
    /\ palive[sch.proc] = "running"
    /\ palive' = [palive EXCEPT ![sch.proc] = "exited"]
    /\ pmeta' = [pmeta EXCEPT ![sch.proc] = NoMeta]
    /\ UNCHANGED <<processes, psig, lock, thr, clean, sch, am, toplay, adv, env, obs, hist, leg, pureVars>>

\* the playlist file is written to: its mtime advances
Touch ==
    /\ env.events < MaxEvents
    /\ sch.pc \in {"sleeping", "boundary"}
    /\ env' = [env EXCEPT !.mtime = @ + 1, !.events = @ + 1]
    /\ UNCHANGED <<pmVars, pmeta, sch, am, toplay, adv, obs, hist, leg, pureVars>>

\* imc_data {"action": "add_to_toplay", "songs": [l]}: the line is appended
AddToplay ==
    /\ env.events < MaxEvents
    /\ sch.pc \in {"loading", "boundary"}
    /\ \E l \in Lines : toplay' = Append(toplay, l)
    /\ env' = [env EXCEPT !.events = @ + 1]
    /\ hist' = [hist EXCEPT !.quiet = FALSE]
    /\ UNCHANGED <<pmVars, pmeta, sch, am, adv, obs, leg, pureVars>>

\* imc_data {"action": "skip_next"}: self.skip_next = not self.skip_next
SkipNext ==
    /\ env.events < MaxEvents
    /\ sch.pc = "boundary"
    /\ am' = [am EXCEPT !.skip_next = ~@]
    /\ env' = [env EXCEPT !.events = @ + 1]
    /\ hist' = [hist EXCEPT !.quiet = FALSE]
    /\ UNCHANGED <<pmVars, pmeta, sch, toplay, adv, obs, leg, pureVars>>

\* ------------------------------ the control-file player (radioPlayer.py)
\* current_process.wait(timeout=2) in stop_all_processes
STOP_WAIT == 2

\* main before its loop: no current_process, no interrupt, not exited;
\* phase is the part of main's try statement that is running, pending the
\* exit status once the finally clause is through
LegInit == [pc |-> "args", phase |-> "try", pending |-> 0, cur |-> 0, el |-> 0,
            ints |-> 0, status |-> "none"]

\* stop_all_processes() has returned: the except clause is followed by the
\* finally clause (after "raise", with exit status 1), the finally clause by
\* the exit of the interpreter
StopReturns(l) ==
    IF l.phase = "finally"
    THEN [l EXCEPT !.pc = "exited", !.status = l.pending]
    ELSE [l EXCEPT !.pc = "stop", !.phase = "finally",
                   !.pending = IF l.phase = "except_exc" THEN 1 ELSE l.pending]

\* parse_arguments(): the argument names a file to play first, or does not
parse_arguments ==
    /\ leg.pc = "args"
    /\ \/ leg' = [leg EXCEPT !.pc = "pre_track"]
       \/ leg' = [leg EXCEPT !.pc = "playlist"]
    /\ UNCHANGED <<pmVars, pmeta, sch, am, toplay, adv, env, obs, hist, pureVars>>

\* play_single_track: current_process = create_audio_process(track_path, ...)
play_single_track ==
    /\ leg.pc = "pre_track"
    /\ Unborn /= {}
    /\ LET p == CHOOSE q \in Unborn : \A r \in Unborn : q <= r IN
         /\ palive' = [palive EXCEPT ![p] = "running"]
         /\ leg' = [leg EXCEPT !.pc = "pre_wait", !.cur = p]
    /\ UNCHANGED <<processes, psig, lock, thr, clean, pmeta, sch, am, toplay, adv,
                   env, obs, hist, pureVars>>

\* play_single_track: current_process.wait() returns; current_process = None
play_single_track_done ==
    /\ leg.pc = "pre_wait"
    /\ palive[leg.cur] = "exited"
    /\ leg' = [leg EXCEPT !.pc = "pre_ctl", !.cur = 0]
    /\ UNCHANGED <<pmVars, pmeta, sch, am, toplay, adv, env, obs, hist, pureVars>>

\* check_control_files() in main: "quit" is exit(), which runs the finally
\* clause; "reload" restarts the loop; otherwise main goes on
check_control_files(from, on) ==
    /\ leg.pc = from
    /\ \/ leg' = [leg EXCEPT !.pc = "stop", !.phase = "finally", !.pending = 0]
       \/ leg' = [leg EXCEPT !.pc = "args"]
       \/ leg' = [leg EXCEPT !.pc = on]
    /\ UNCHANGED <<pmVars, pmeta, sch, am, toplay, adv, env, obs, hist, pureVars>>

\* play_playlist: if not tracks: time.sleep(15); return
play_playlist_empty ==
    /\ leg.pc = "playlist"
    /\ leg' = [leg EXCEPT !.pc = "sleep"]
    /\ UNCHANGED <<pmVars, pmeta, sch, am, toplay, adv, env, obs, hist, pureVars>>

\* play_playlist: time.sleep(15) is over
play_playlist_return ==
    /\ leg.pc = "sleep"
    /\ leg' = [leg EXCEPT !.pc = "pl_ctl"]
    /\ UNCHANGED <<pmVars, pmeta, sch, am, toplay, adv, env, obs, hist, pureVars>>

\* play_playlist with tracks: "if current_process:" reads a local that is
\* assigned only further down, UnboundLocalError; main's "except Exception"
play_playlist_tracks ==
    /\ leg.pc = "playlist"
    /\ leg' = [leg EXCEPT !.pc = "stop", !.phase = "except_exc"]
    /\ UNCHANGED <<pmVars, pmeta, sch, am, toplay, adv, env, obs, hist, pureVars>>

\* SIGINT: KeyboardInterrupt is raised in main. In the try block it is caught
\* by "except KeyboardInterrupt"; in an except clause it leaves the clause for
\* the finally clause, uncaught; in the finally clause it ends the interpreter
\* (an uncaught KeyboardInterrupt exits with status 130)
KeyboardInterrupt ==
    /\ leg.pc /= "exited"
    /\ leg.ints < MaxInts
    /\ leg' = IF leg.phase = "try"
              THEN [leg EXCEPT !.ints = @ + 1, !.pc = "stop", !.phase = "except_kbd",
                               !.pending = 0]
              ELSE IF leg.phase = "finally"
              THEN [leg EXCEPT !.ints = @ + 1, !.pc = "exited", !.status = 130]
              ELSE [leg EXCEPT !.ints = @ + 1, !.pc = "stop", !.phase = "finally",
                               !.pending = 130]
    /\ UNCHANGED <<pmVars, pmeta, sch, am, toplay, adv, env, obs, hist, pureVars>>

\* stop_all_processes: if current_process and current_process.poll() is None:
\* current_process.terminate(); otherwise nothing is done
stop_all_processes ==
    /\ leg.pc = "stop"
    /\ IF leg.cur /= 0 /\ palive[leg.cur] = "running"
       THEN /\ Terminate(leg.cur)
            /\ leg' = [leg EXCEPT !.pc = "stop_wait", !.el = 0]
       ELSE /\ leg' = StopReturns(leg)
            /\ UNCHANGED psig
    /\ UNCHANGED <<processes, palive, lock, thr, clean, pmeta, sch, am, toplay, adv,
                   env, obs, hist, pureVars>>

\* stop_all_processes: current_process.wait(timeout=2) returns;
\* current_process = None
stop_all_processes_exited ==
    /\ leg.pc = "stop_wait"
    /\ palive[leg.cur] = "exited"
    /\ leg' = [StopReturns(leg) EXCEPT !.cur = 0, !.el = 0]
    /\ UNCHANGED <<pmVars, pmeta, sch, am, toplay, adv, env, obs, hist, pureVars>>

\* stop_all_processes: except subprocess.TimeoutExpired: current_process.kill();
\* current_process.wait(timeout=2); current_process = None
stop_all_processes_timeout ==
    /\ leg.pc = "stop_wait"
    /\ leg.el >= STOP_WAIT
    /\ palive[leg.cur] = "running"
    /\ Kill(leg.cur)
    /\ leg' = [StopReturns(leg) EXCEPT !.cur = 0, !.el = 0]
    /\ UNCHANGED <<processes, lock, thr, clean, pmeta, sch, am, toplay, adv, env,
                   obs, hist, pureVars>>

\* one second passes in wait(timeout=2), unless its deadline is reached
LegSecond ==
    /\ leg.pc = "stop_wait"
    /\ leg.el < STOP_WAIT
    /\ leg' = [leg EXCEPT !.el = @ + 1]
    /\ UNCHANGED <<pmVars, pmeta, sch, am, toplay, adv, env, obs, hist, pureVars>>

\* ------------------------- inter-module communication (modules/__init__.py)
\* the module objects of a run and the names they register under; "None" is
\* Python's None (an extension slot left empty, a source without a name)
IMCModules == {"advisor", "skipper", "procman"}
Names == {"advisor", "procman"}
\* the modules whose imc() registers a name; skipper's is BaseIMCModule's
Registering == {"advisor", "procman"}
\* the modules that send: one that registers, one that does not
Senders == {"advisor", "skipper"}

\* the extension slots in load order, one of them empty, and the lists the
\* bus may be built over: any of the slots, in that order
Slots == <<"advisor", "None", "skipper", "procman">>
RECURSIVE ModuleLists(_)
ModuleLists(l) ==
    IF l = <<>> THEN {<<>>}
    ELSE ModuleLists(Tail(l)) \cup {<<Head(l)>> \o x : x \in ModuleLists(Tail(l))}

\* InterModuleCommunication.__init__: self.modules = modules; names_modules = {}
IMCInit(modules) == [modules |-> modules, names_modules |-> <<>>]

\* no name is ever found in the table
NeverTaken(tab, name) == FALSE

\* name in self.names_modules.keys(); the dict is kept in insertion order
Taken(tab, name) == \E i \in 1..Len(tab) : tab[i].name = name

\* self.names_modules[name]
Endpoint(tab, name) == tab[CHOOSE i \in 1..Len(tab) : tab[i].name = name].module

\* next((k for k, v in self.names_modules.items() if v is source), None)
SourceName(tab, source) ==
    IF \E i \in 1..Len(tab) : tab[i].module = source
    THEN tab[CHOOSE i \in 1..Len(tab) :
               /\ tab[i].module = source
               /\ \A j \in 1..(i - 1) : tab[j].module /= source].name
    ELSE "None"

\* the name is given to the module that asks last
reregister(st, module, name) ==
    [st |-> [st EXCEPT !.names_modules =
                Append(SelectSeq(@, LAMBDA e : e.name /= name),
                       [name |-> name, module |-> module])],
     value |-> TRUE]

\* register: if name in self.names_modules.keys(): return False; ...; return True
register(st, module, name) ==
    IF Taken(st.names_modules, name) THEN [st |-> st, value |-> FALSE]
    ELSE [st |-> [st EXCEPT !.names_modules =
                     Append(@, [name |-> name, module |-> module])],
          value |-> TRUE]

\* a dict handed to an endpoint: data.get(key) is <<>> for None, <<v>> for v;
\* a payload that is not a dict has dict = FALSE
Request(op, arg, timeout) == [dict |-> TRUE, op |-> op, arg |-> arg, timeout |-> timeout]
Payload == [dict |-> FALSE, op |-> <<>>, arg |-> <<>>, timeout |-> <<>>]

\* what a handler returns: None, a value that is not a map, or a map
\* {"op": op, "arg": arg} (arg is <<>> when the map has no "arg")
NoneReply == [map |-> FALSE, val |-> "None"]
Advice == [map |-> FALSE, val |-> "advice"]
Map(op, arg) == [map |-> TRUE, op |-> op, arg |-> arg]

\* the positional parameters of ProcessManager.play after self
PlayParams == <<"track">>

\* a Python call binds its positional arguments to the parameters in order and
\* raises TypeError when there are more arguments than parameters
Binds(params, args) == Len(args) <= Len(params)

\* the state of the process manager a handler works on
PM == [processes |-> processes, palive |-> palive, psig |-> psig]

\* ProcessManager.stop_all run alone: every live process gets SIGTERM (SIGKILL
\* when the timeout expires), has exited when wait returns, and the list is cleared
StopAll(pm) ==
    [processes |-> Cleared(pm.processes),
     palive |-> [p \in DOMAIN pm.palive |->
                    IF p \in Range(pm.processes) THEN "exited" ELSE pm.palive[p]],
     psig |-> [p \in DOMAIN pm.psig |->
                  IF p \in Range(pm.processes) /\ pm.palive[p] = "running"
                  THEN "term" ELSE pm.psig[p]]]

\* ProcessManager.play run alone: the decoder is started and appended
Started(pm) ==
    IF \A p \in DOMAIN pm.palive : pm.palive[p] /= "unborn" THEN pm
    ELSE LET p == CHOOSE q \in DOMAIN pm.palive :
                     /\ pm.palive[q] = "unborn"
                     /\ \A r \in DOMAIN pm.palive : pm.palive[r] = "unborn" => q <= r
         IN [pm EXCEPT !.processes = Append(@, p), !.palive[p] = "running"]

\* the result of a handler: its return value, the exception it raised ("none"
\* when it returned), the process manager method it called, and the process
\* manager afterwards
Handled(reply, raised, called, pm) ==
    [reply |-> reply, raised |-> raised, called |-> called, pm |-> pm]

\* ProcmanCommunicator.imc_data(source, source_name, data, broadcast)
ProcmanCommunicator(pm, data, broadcast) ==
    IF broadcast \/ ~data.dict \/ data.op = <<>>
    THEN Handled(NoneReply, "none", "none", pm)
    ELSE LET op == data.op[1] IN
      CASE op = 0 -> Handled(Map(0, <<"pong">>), "none", "none", pm)
        [] op = 1 -> IF data.arg /= <<>>
                     THEN Handled(Map(1, <<Duration(data.arg[1])>>), "none",
                                  "_get_audio_duration", pm)
                     ELSE Handled(NoneReply, "none", "none", pm)
        [] op = 2 -> Handled(Map(2, <<>>), "none", "stop_all", StopAll(pm))
        [] op = 3 -> Handled(Map(3, <<pm.processes>>), "none", "processes", pm)
        [] op = 4 -> Handled(Map(4, <<Reap(pm.processes) /= <<>> >>), "none",
                             "anything_playing",
                             [pm EXCEPT !.processes = Reap(pm.processes)])
        [] op = 5 -> IF data.arg /= <<>>
                     THEN IF Binds(PlayParams, <<data.arg[1], 5, 5>>)
                          THEN Handled(Map(5, <<Started(pm).processes>>), "none",
                                       "play", Started(pm))
                          ELSE Handled(NoneReply, "TypeError", "play", pm)
                     ELSE Handled(NoneReply, "none", "none", pm)
        [] OTHER -> Handled(NoneReply, "none", "none", pm)

\* module.imc_data(source, source_name, data, broadcast) of each module:
\* BaseIMCModule's returns None, the advisor's returns its advice
imc_data(module, pm, data, broadcast) ==
    CASE module = "procman" -> ProcmanCommunicator(pm, data, broadcast)
      [] module = "advisor" -> Handled(Advice, "none", "none", pm)
      [] OTHER -> Handled(NoneReply, "none", "none", pm)

\* one call of a handler, as the bus makes it, with what it returned
Invocation(to, source, source_name, data, broadcast, h) ==
    [to |-> to, source |-> source, source_name |-> source_name, data |-> data,
     broadcast |-> broadcast, returned |-> h.reply, called |-> h.called]

\* send: if not name in self.names_modules.keys(): raise Exception(...)
\*       return self.names_modules[name].imc_data(source, <name of source>, data, False)
send(st, pm, source, name, data) ==
    IF ~Taken(st.names_modules, name)
    THEN [value |-> NoneReply, raised |-> "No such module", calls |-> <<>>, pm |-> pm]
    ELSE LET to == Endpoint(st.names_modules, name)
             h == imc_data(to, pm, data, FALSE)
         IN [value |-> h.reply, raised |-> h.raised,
             calls |-> <<Invocation(to, source, SourceName(st.names_modules, source),
                                    data, FALSE, h)>>,
             pm |-> h.pm]

\* [f for f in self.modules if (f is not source) and f]
Receivers(st, source) ==
    SelectSeq(st.modules, LAMBDA f : f /= source /\ f /= "None")

\* broadcast: for module in [...]: module.imc_data(source, source_name, data, True)
broadcast(st, pm, source, data) ==
    [value |-> NoneReply, raised |-> "none",
     calls |-> [i \in 1..Len(Receivers(st, source)) |->
                  Invocation(Receivers(st, source)[i], source,
                             SourceName(st.names_modules, source), data, TRUE,
                             imc_data(Receivers(st, source)[i], pm, data, TRUE))],
     pm |-> pm]

\* --------------------------------------------- playlist modifiers (code)
\* the value of an argument: "absent" when the key is not in the dict, "true"
\* for a flag written bare (the parser stores True), else the text after "="
\* int(d.get(key, default)) and float(d.get(key, default)): True counts as 1
Number(v, default) ==
    CASE v = "absent" -> default
      [] v = "true" -> 1
      [] v = "0" -> 0
      [] v = "1" -> 1
      [] OTHER -> 3

\* the arguments of a track, {} when it has none
Args(crossfade, no_jingle) == [crossfade |-> crossfade, no_jingle |-> no_jingle]

\* Track(path, fade_out, fade_in, official, args, focus_time_offset=fto), the
\* resume position offset left at its default
TrackArgs(path, fade_out, fade_in, official, args, fto) ==
    [path |-> path, fade_out |-> fade_out, fade_in |-> fade_in,
     official |-> official, args |-> args, fto |-> fto, offset |-> 0]

\* a modifier returns a list, or None
Output(out) == [none |-> FALSE, out |-> out]
NoOutput == [none |-> TRUE, out |-> <<>>]

\* the playlist is shuffled whatever the arguments say
ShuffleAnyway(gargs) == FALSE

\* shuffler: int(global_args.get("no_shuffle", 0)) == 0 is false
NoShuffle(gargs) == Number(gargs.no_shuffle, 0) /= 0

\* shuffler.modify: random.shuffle(playlist) puts the tracks in the order perm
shuffle(gargs, playlist, perm) ==
    IF NoShuffle(gargs) THEN Output(playlist)
    ELSE Output([i \in 1..Len(playlist) |-> playlist[perm[i]]])

\* the track is passed on as it is
NotCrossfaded(track) == track

\* crossfade_init.modify, one track: float(... or DEFAULT_CROSSFADE) or
\* DEFAULT_CROSSFADE, then a new Track for an official track
Crossfaded(track) ==
    LET hint == Number(track.args.crossfade, DEFAULT_CROSSFADE)
        track_crossfade == IF hint = 0 THEN DEFAULT_CROSSFADE ELSE hint
    IN IF track.official /\ track_crossfade /= 0
       THEN TrackArgs(track.path, track_crossfade, track_crossfade, track.official,
                      track.args, -track_crossfade)
       ELSE track

\* crossfade_init.modify
crossfade_init(playlist) ==
    Output([i \in 1..Len(playlist) |-> Crossfaded(playlist[i])])

\* jingle.modify, the loop from track i on: draws[i] is what the random draws
\* give at track i, "miss" or the jingle file chosen
RECURSIVE JingleSweep(_, _, _, _, _)
JingleSweep(playlist, i, last_jingiel, draws, crossfade) ==
    IF i > Len(playlist) THEN <<>>
    ELSE LET track == playlist[i] IN
         IF ~last_jingiel /\ draws[i] /= "miss"
               /\ Number(track.args.no_jingle, 0) = 0
         THEN <<TrackArgs(track.path, crossfade, 0, TRUE, track.args, -crossfade),
                TrackArgs(draws[i], 0, 0, FALSE, Args("absent", "absent"), 0)>>
              \o JingleSweep(playlist, i + 1, TRUE, draws, crossfade)
         ELSE <<TrackArgs(track.path, crossfade, crossfade, TRUE, track.args,
                          -crossfade)>>
              \o JingleSweep(playlist, i + 1, FALSE, draws, crossfade)

\* jingle.modify
jingle(gargs, playlist, draws) ==
    IF Number(gargs.no_jingle, 0) /= 0 THEN NoOutput
    ELSE Output(JingleSweep(playlist, 1, TRUE, draws,
                            Number(gargs.crossfade, DEFAULT_CROSSFADE)))

\* ProcessManager.play: if track.offset >= duration:
\*     track.offset = max(duration - 0.1, 0)
Clamped(track, duration) ==
    IF track.offset >= duration
    THEN [track EXCEPT !.offset = IF duration - Eps > 0 THEN duration - Eps ELSE 0]
    ELSE track

\* no module call made yet; the pure-function inputs at rest
NoRet == [op |-> "none"]
\* the advisor's disk before anything is written to it
PlaylistFiles == {BandFile(Weekdays[d], b) : d \in 1..7, b \in Bands} \cup {OverridePath}
NoDisk == [override |-> FALSE, made |-> {}, mtime |-> [f \in PlaylistFiles |-> 0],
           ticks |-> 0]
InitIdle ==
    /\ now = [day |-> 1, hour |-> 12]
    /\ qfile = <<>>
    /\ fs = NoDisk
    /\ par = <<>>
    /\ ret = NoRet
    /\ imc = IMCInit(<<>>)
    /\ mod = <<>>

InitCoreOnly ==
    /\ pmeta = [p \in DOMAIN palive |-> NoMeta]
    /\ sch = SchInit
    /\ am = AMInit
    /\ toplay = <<>>
    /\ adv = AdvInit
    /\ env = [mtime |-> 0, events |-> 0, loads |-> 0]
    /\ obs = [o \in Observers |-> NoObs]
    /\ hist = NoHist
    /\ leg = LegInit

InitCoreVars == InitCoreOnly /\ InitIdle

InitPM ==
    /\ processes = <<>>
    /\ palive = [p \in Procs |-> "unborn"]
    /\ psig = [p \in Procs |-> "none"]
    /\ lock = NoThread
    /\ thr = [t \in Threads |-> IdleThread]
    /\ clean = FALSE
    /\ InitCoreVars

NextPM ==
    \/ \E t \in Threads : Call(t)
    \/ \E t \in Threads : PlayProbe(t)
    \/ \E t \in Threads : PlaySpawn(t)
    \/ \E t \in Threads : PlayLock(t)
    \/ \E t \in Threads : PlayAppend(t)
    \/ \E t \in Threads : APLock(t)
    \/ \E t \in Threads : APReap(t)
    \/ \E t \in Threads : SALock(t)
    \/ \E t \in Threads : SATerm(t)
    \/ \E t \in Threads : SAWaitExit(t)
    \/ \E t \in Threads : SAWaitTimeout(t)
    \/ \E t \in Threads : SAClear(t)
    \/ \E t \in Threads : WALock(t)
    \/ \E t \in Threads : WAWaitExit(t)
    \/ \E t \in Threads : WAWaitTimeout(t)
    \/ \E t \in Threads : WAClear(t)
    \/ \E p \in Procs : ProcExit(p)
    \/ Tick

SpecPM == InitPM /\ [][NextPM]_vars

\* ------------------------------------------------------ the playout core
InitCore ==
    /\ processes = <<>>
    /\ palive = [p \in 1..MaxPlays |-> "unborn"]
    /\ psig = [p \in 1..MaxPlays |-> "none"]
    /\ lock = NoThread
    /\ thr = [t \in Threads |-> IdleThread]
    /\ clean = FALSE
    /\ InitCoreVars

NextCore ==
    \/ Advise
    \/ ParseError
    \/ Load
    \/ NotifyPlaylist
    \/ Exhausted
    \/ Reload
    \/ Drained
    \/ Step
    \/ Announce
    \/ Spawn
    \/ SpawnFails
    \/ Progress
    \/ StepEnd
    \/ Second
    \/ Crash
    \/ Touch
    \/ AddToplay
    \/ SkipNext

SpecCore == InitCore /\ [][NextCore]_vars

InitLegacy == InitPM

NextLegacy ==
    \/ parse_arguments
    \/ play_single_track
    \/ play_single_track_done
    \/ check_control_files("pre_ctl", "playlist")
    \/ check_control_files("pl_ctl", "playlist")
    \/ play_playlist_empty
    \/ play_playlist_return
    \/ play_playlist_tracks
    \/ KeyboardInterrupt
    \/ stop_all_processes
    \/ stop_all_processes_exited
    \/ stop_all_processes_timeout
    \/ LegSecond
    \/ \E p \in Procs : ProcExit(p)

SpecLegacy == InitLegacy /\ [][NextLegacy]_vars

\* ------------------------------------- the active modifier, called alone
\* the clock is read five minutes before the hour
ClockHours == {4, 9, 12, 17, 23}
Clock(h) == h * 3600 + 55 * 60
\* what the process manager reports as the duration of a file, in seconds
Durations == {0, 300, 600}
\* the replies of an advisor: none that unpacks, or its custom flag and bands
Replies == {NoReply, <<FALSE, MORNING_START, DAY_END>>, <<TRUE, MORNING_START, DAY_END>>}
\* the playlist the scheduler hands over, and the tracks it proposes from it
AMPlaylist == <<Track("A", 0, 0, TRUE, 0), Track("B", 0, 0, TRUE, 0)>>
AMNext(index) ==
    IF index + 2 <= Len(AMPlaylist) THEN AMPlaylist[index + 2] ELSE NoneT
\* the requests a client sends: lists of one or two songs; web.py forwards
\* any list, the empty string included
Requests == {<<l>> : l \in Lines \cup {Blank}} \cup {<<Line(FALSE, "J"), Line(TRUE, "K")>>}

\* on_new_playlist(playlist, global_args)
AMOnNewPlaylist(reply) ==
    /\ am' = on_new_playlist(am, AMPlaylist, <<>>, reply)
    /\ ret' = [op |-> "on_new_playlist"]
    /\ UNCHANGED <<pmVars, coreVarsButAM, now, qfile, fs, par, imc, mod>>

\* play(index, track, next_track) at clock t, the decoder reporting dur; the
\* clock and the duration are read only when the guard is reached
AMPlay(index, t, dur) ==
    LET queued == am.playlist /= <<>> /\ Expand(Entries(qfile)) /= <<>>
        r == Play(am, Entries(qfile), index, AMPlaylist[index + 1], AMNext(index),
                  TimeBleed(am, t, dur))
        asked == am.playlist /= <<>> /\ am.can_limit_tracks
                    /\ (~queued \/ (am.skip_next /\ Len(Expand(Entries(qfile))) = 1))
    IN /\ am.playlist /= <<>>
       /\ Len(am.originals) < MaxOriginals \/ ~queued
       /\ asked \/ (t = Clock(12) /\ dur = 0)
       /\ am' = r.st
       /\ qfile' = IF queued THEN Rewritten(r.file) ELSE qfile
       /\ ret' = [op |-> "play", cur |-> r.cur, nxt |-> r.nxt, ext |-> r.ext,
                  asked |-> asked, t |-> t, dur |-> dur]
       /\ UNCHANGED <<pmVars, coreVarsButAM, now, fs, par, imc, mod>>

\* imc_data {"action": "add_to_toplay", "songs": songs, "top": top}
AMAddToplay(songs, top) ==
    /\ Len(qfile) + 2 * Len(songs) <= MaxQueue
    /\ qfile' = add_to_toplay(qfile, songs, top)
    /\ ret' = [op |-> "add_to_toplay"]
    /\ UNCHANGED <<pmVars, coreVars, now, fs, par, imc, mod>>

\* imc_data {"action": "clear_toplay"}
AMClearToplay ==
    /\ qfile' = clear_toplay(qfile)
    /\ ret' = [op |-> "clear_toplay", data |-> FirstLine(qfile, 0)]
    /\ UNCHANGED <<pmVars, coreVars, now, fs, par, imc, mod>>

\* imc_data {"action": "skip_next", "set": set}
AMSkipNext(set) ==
    /\ am' = skip_next(am, set)
    /\ ret' = [op |-> "skip_next"]
    /\ UNCHANGED <<pmVars, coreVarsButAM, now, qfile, fs, par, imc, mod>>

InitAM == InitPM

NextAM ==
    \/ \E reply \in Replies : AMOnNewPlaylist(reply)
    \/ \E index \in 0..(Len(AMPlaylist) - 1), h \in ClockHours, dur \in Durations :
            AMPlay(index, Clock(h), dur)
    \/ \E songs \in Requests, top \in BOOLEAN : AMAddToplay(songs, top)
    \/ AMClearToplay
    \/ \E set \in BOOLEAN : AMSkipNext(set)

SpecAM == InitAM /\ [][NextAM]_vars

\* --------------------------------------------- the advisor, called alone
\* advise(arguments)
AdvAdvise ==
    LET r == advise(adv, fs, now)
    IN /\ adv' = r.adv
       /\ fs' = r.fs
       /\ ret' = [op |-> "advise", path |-> r.path]
       /\ UNCHANGED <<pmVars, coreVarsButAdv, now, qfile, par, imc, mod>>

\* new_playlist()
AdvNewPlaylist ==
    /\ ret' = [op |-> "new_playlist", val |-> new_playlist(adv, fs, now)]
    /\ UNCHANGED <<pmVars, coreVars, now, qfile, fs, par, imc, mod>>

\* the operator writes /tmp/radioPlayer_list
OverridePut ==
    /\ ~fs.override
    /\ fs' = [fs EXCEPT !.override = TRUE]
    /\ ret' = NoRet
    /\ UNCHANGED <<pmVars, coreVars, now, qfile, par, imc, mod>>

\* the operator removes /tmp/radioPlayer_list
OverrideRemove ==
    /\ fs.override
    /\ fs' = [fs EXCEPT !.override = FALSE]
    /\ ret' = NoRet
    /\ UNCHANGED <<pmVars, coreVars, now, qfile, par, imc, mod>>

\* the list the advisor selected last is edited on disk
TouchPlaylist ==
    /\ Exists(fs, adv.last_playlist)
    /\ fs.mtime[adv.last_playlist] < MaxMtime
    /\ fs' = [fs EXCEPT !.mtime[adv.last_playlist] = @ + 1]
    /\ ret' = NoRet
    /\ UNCHANGED <<pmVars, coreVars, now, qfile, par, imc, mod>>

\* an hour passes
ClockTick ==
    /\ fs.ticks < MaxTicks
    /\ now' = IF now.hour < 23 THEN [now EXCEPT !.hour = @ + 1]
              ELSE [day |-> (now.day % 7) + 1, hour |-> 0]
    /\ fs' = [fs EXCEPT !.ticks = @ + 1]
    /\ ret' = NoRet
    /\ UNCHANGED <<pmVars, coreVars, qfile, par, imc, mod>>

InitAdv ==
    /\ processes = <<>>
    /\ palive = [p \in Procs |-> "unborn"]
    /\ psig = [p \in Procs |-> "none"]
    /\ lock = NoThread
    /\ thr = [t \in Threads |-> IdleThread]
    /\ clean = FALSE
    /\ pmeta = [p \in DOMAIN palive |-> NoMeta]
    /\ sch = SchInit
    /\ am = AMInit
    /\ toplay = <<>>
    /\ adv = AdvInit
    /\ env = [mtime |-> 0, events |-> 0, loads |-> 0]
    /\ obs = [o \in Observers |-> NoObs]
    /\ hist = NoHist
    /\ leg = LegInit
    /\ now \in [day : 1..7, hour : 0..23]
    /\ qfile = <<>>
    /\ fs = NoDisk
    /\ par = <<>>
    /\ ret = NoRet
    /\ imc = IMCInit(<<>>)
    /\ mod = <<>>

NextAdv ==
    \/ AdvAdvise
    \/ AdvNewPlaylist
    \/ OverridePut
    \/ OverrideRemove
    \/ TouchPlaylist
    \/ ClockTick

SpecAdv == InitAdv /\ [][NextAdv]_vars

\* ------------------------------------------------ the parser, called alone
\* the lines found in playlist files: a media file, imports of the three
\* files and of a missing one, global arguments and a comment
SongLine == <<"J">>
GlobalLine == <<"|", "k", "=", "v", ";", "b">>
RootLines == {SongLine, <<"@", "p">>, <<"@", "q">>, <<"@", "r">>, <<"@", "m">>,
              GlobalLine, <<";", "J">>}
InnerLines == {SongLine, <<"@", "p">>, <<"@", "r">>}
LeafLines == {SongLine, <<"@", "q">>}

\* the sequences of at most n elements of S
SeqUpTo(S, n) == UNION {[1..k -> S] : k \in 0..n}

\* parse(playlist_path)
ParseCall ==
    /\ ret = NoRet
    /\ ret' = parse(par.disk, par.root)
    /\ UNCHANGED <<pmVars, coreVars, now, qfile, fs, par, imc, mod>>

InitParser ==
    /\ processes = <<>>
    /\ palive = [p \in Procs |-> "unborn"]
    /\ psig = [p \in Procs |-> "none"]
    /\ lock = NoThread
    /\ thr = [t \in Threads |-> IdleThread]
    /\ clean = FALSE
    /\ pmeta = [p \in DOMAIN palive |-> NoMeta]
    /\ sch = SchInit
    /\ am = AMInit
    /\ toplay = <<>>
    /\ adv = AdvInit
    /\ env = [mtime |-> 0, events |-> 0, loads |-> 0]
    /\ obs = [o \in Observers |-> NoObs]
    /\ hist = NoHist
    /\ leg = LegInit
    /\ now = [day |-> 1, hour |-> 12]
    /\ qfile = <<>>
    /\ fs = NoDisk
    /\ \E fp \in SeqUpTo(RootLines, MaxLines), fq \in SeqUpTo(InnerLines, MaxLines),
          fr \in SeqUpTo(LeafLines, MaxLines), root \in {<<"p">>, <<"m">>} :
          par = [disk |-> (<<"p">> :> fp) @@ (<<"q">> :> fq) @@ (<<"r">> :> fr),
                 root |-> root]
    /\ ret = NoRet
    /\ imc = IMCInit(<<>>)
    /\ mod = <<>>

NextParser == ParseCall

SpecParser == InitParser /\ [][NextParser]_vars

\* ------------------------------------------------- the bus, called alone
\* the requests sent to the "procman" endpoint: {"op": k}, with "arg" or
\* without; op 1 takes a path, op 5 a Track
ProcmanRequest(k, hasarg) ==
    Request(<<k>>,
            IF ~hasarg THEN <<>>
            ELSE IF k = 5 THEN <<Track("A", DEFAULT_CROSSFADE, DEFAULT_CROSSFADE, TRUE, 0)>>
            ELSE <<"A">>,
            <<>>)

IMCRegister(module, name) ==
    /\ imc' = register(imc, module, name).st
    /\ ret' = [op |-> "register", module |-> module, name |-> name,
               value |-> register(imc, module, name).value]
    /\ UNCHANGED <<pmVars, coreVars, now, qfile, fs, par, mod>>

IMCSend(source, name, k, hasarg, dict) ==
    LET data == IF ~dict THEN Payload
                ELSE IF k = 7 THEN Request(<<>>, <<>>, <<>>)
                ELSE ProcmanRequest(k, hasarg)
        r == send(imc, PM, source, name, data)
    IN /\ hasarg => k \in {1, 5}
       /\ ~dict => (k = 0 /\ ~hasarg)
       /\ (dict /\ k < 7) => name = "procman"
       /\ processes' = r.pm.processes
       /\ palive' = r.pm.palive
       /\ psig' = r.pm.psig
       /\ ret' = [op |-> "send", source |-> source, name |-> name, data |-> data,
                  value |-> r.value, raised |-> r.raised, calls |-> r.calls]
       /\ UNCHANGED <<lock, thr, clean, coreVars, now, qfile, fs, par, imc, mod>>

IMCBroadcast(source, dict) ==
    LET data == IF dict THEN ProcmanRequest(2, FALSE) ELSE Payload
        r == broadcast(imc, PM, source, data)
    IN /\ ret' = [op |-> "broadcast", source |-> source, data |-> data,
                  value |-> r.value, raised |-> r.raised, calls |-> r.calls]
       /\ UNCHANGED <<pmVars, coreVars, now, qfile, fs, par, imc, mod>>

\* the bus is built over a list of modules; one decoder plays, one has exited
InitIMC ==
    /\ processes = <<1, 2>>
    /\ palive = [p \in Procs |-> IF p = 1 THEN "running"
                                  ELSE IF p = 2 THEN "exited" ELSE "unborn"]
    /\ psig = [p \in Procs |-> "none"]
    /\ lock = NoThread
    /\ thr = [t \in Threads |-> IdleThread]
    /\ clean = FALSE
    /\ InitCoreOnly
    /\ now = [day |-> 1, hour |-> 12]
    /\ qfile = <<>>
    /\ fs = NoDisk
    /\ par = <<>>
    /\ ret = NoRet
    /\ imc \in {IMCInit(l) : l \in ModuleLists(Slots)}
    /\ mod = <<>>

NextIMC ==
    \/ \E m \in Registering, n \in Names : IMCRegister(m, n)
    \/ \E s \in Senders, n \in Names, k \in 0..7, hasarg \in BOOLEAN, dict \in BOOLEAN :
          IMCSend(s, n, k, hasarg, dict)
    \/ \E s \in IMCModules, dict \in BOOLEAN : IMCBroadcast(s, dict)

SpecIMC == InitIMC /\ [][NextIMC]_vars

\* --------------------------------------- the modifiers and play, called alone
\* the tracks of a parsed playlist: plain, with a crossfade of its own, with
\* no_jingle and a crossfade of 0, and one that is not official; two resume
\* one second in ("A" lasts two seconds, every other file one)
InputTracks ==
    {[TrackArgs("A", 0, 0, TRUE, Args("absent", "absent"), 0) EXCEPT !.offset = 1],
     [TrackArgs("B", 0, 0, TRUE, Args("3", "absent"), 0) EXCEPT !.offset = 1],
     TrackArgs("C", 0, 0, TRUE, Args("0", "true"), 0),
     TrackArgs("D", 0, 0, FALSE, Args("3", "absent"), 0)}

\* the global arguments of a playlist
GlobalArgs == [no_shuffle : {"absent", "true", "0"}, no_jingle : {"absent", "true"},
               crossfade : {"absent", "3"}]

\* what the random draws of one jingle sweep give, track by track
Draws == [1..Len(mod) -> {"miss", "primary", "secondary"}]

ModShuffle(gargs) ==
    /\ ret = NoRet
    /\ gargs.no_jingle = "absent" /\ gargs.crossfade = "absent"
    /\ \E perm \in Permutations(1..Len(mod)) :
          /\ mod' = shuffle(gargs, mod, perm).out
          /\ ret' = [op |-> "shuffle", gargs |-> gargs, playlist |-> mod,
                     returned |-> shuffle(gargs, mod, perm)]
    /\ UNCHANGED <<pmVars, coreVars, now, qfile, fs, par, imc>>

ModJingle(gargs) ==
    /\ ret = NoRet
    /\ gargs.no_shuffle = "absent"
    /\ \E draws \in Draws :
          ret' = [op |-> "jingle", gargs |-> gargs, playlist |-> mod,
                  returned |-> jingle(gargs, mod, draws)]
    /\ UNCHANGED <<pmVars, coreVars, now, qfile, fs, par, imc, mod>>

ModCrossfadeInit ==
    /\ ret = NoRet
    /\ ret' = [op |-> "crossfade_init", playlist |-> mod,
               returned |-> crossfade_init(mod)]
    /\ UNCHANGED <<pmVars, coreVars, now, qfile, fs, par, imc, mod>>

\* the chain: the jingle modifier's list is handed to crossfade_init
ModChain(gargs) ==
    /\ ret = NoRet
    /\ gargs.no_shuffle = "absent"
    /\ \E draws \in Draws :
          /\ ~jingle(gargs, mod, draws).none
          /\ ret' = [op |-> "chain", gargs |-> gargs, playlist |-> mod,
                     jingled |-> jingle(gargs, mod, draws).out,
                     returned |-> crossfade_init(jingle(gargs, mod, draws).out)]
    /\ UNCHANGED <<pmVars, coreVars, now, qfile, fs, par, imc, mod>>

\* play(track) on the i-th entry of the playlist: the Track object is shared
ModPlay(i) ==
    /\ ret = NoRet
    /\ i \in 1..Len(mod)
    /\ mod' = [mod EXCEPT ![i] = Clamped(@, Duration(@.path))]
    /\ ret' = [op |-> "play", i |-> i, given |-> mod[i],
               track |-> Clamped(mod[i], Duration(mod[i].path)),
               duration |-> Duration(mod[i].path)
                            - Clamped(mod[i], Duration(mod[i].path)).offset]
    /\ UNCHANGED <<pmVars, coreVars, now, qfile, fs, par, imc>>

InitMod ==
    /\ processes = <<>>
    /\ palive = [p \in Procs |-> "unborn"]
    /\ psig = [p \in Procs |-> "none"]
    /\ lock = NoThread
    /\ thr = [t \in Threads |-> IdleThread]
    /\ clean = FALSE
    /\ InitCoreOnly
    /\ now = [day |-> 1, hour |-> 12]
    /\ qfile = <<>>
    /\ fs = NoDisk
    /\ par = <<>>
    /\ ret = NoRet
    /\ imc = IMCInit(<<>>)
    /\ mod \in SeqUpTo(InputTracks, MaxTracks)

NextMod ==
    \/ \E gargs \in GlobalArgs : ModShuffle(gargs)
    \/ \E gargs \in GlobalArgs : ModJingle(gargs)
    \/ ModCrossfadeInit
    \/ \E gargs \in GlobalArgs : ModChain(gargs)
    \/ \E i \in 1..MaxTracks : ModPlay(i)

SpecMod == InitMod /\ [][NextMod]_vars

\* ------------------------- play() and add_to_toplay on two threads
\* play() holds file_lock while it reads the queue file and again while it
\* rewrites it, and releases it in between; the requests of the web module's
\* _ipc_worker thread are served under the same lock. The position of play()
\* (pc), the lines it has read (songs), the track index the scheduler is at
\* (song_i), the songs accepted with "ok" and the songs play() has returned
\* as substitutions
RaceInit == [op |-> "race", pc |-> "idle", songs |-> <<>>, song_i |-> 0,
             accepted |-> <<>>, returned |-> <<>>]

\* the songs a client asks for
RaceRequests == {<<Line(FALSE, "J")>>, <<Line(TRUE, "K")>>,
                 <<Line(FALSE, "J"), Line(TRUE, "K")>>}

\* play(): with self.file_lock: songs = the non-blank lines of the file
RacePlayRead ==
    /\ am.playlist /= <<>>
    /\ ret.pc = "idle"
    /\ ret.song_i < Len(AMPlaylist)
    /\ ret' = [ret EXCEPT !.pc = "read", !.songs = Entries(qfile)]
    /\ UNCHANGED <<pmVars, coreVars, now, qfile, fs, par, imc, mod>>

\* play() from the glob expansion on: the pop, the rewrite of the file under
\* the lock with the lines read before, and the return
RacePlayWrite ==
    LET r == Play(am, ret.songs, ret.song_i, AMPlaylist[ret.song_i + 1],
                  AMNext(ret.song_i), FALSE)
    IN /\ ret.pc = "read"
       /\ am' = r.st
       /\ qfile' = IF Expand(ret.songs) /= <<>> THEN Rewritten(r.file) ELSE qfile
       /\ ret' = [ret EXCEPT !.pc = "idle", !.songs = <<>>,
                             !.song_i = IF r.ext THEN @ ELSE @ + 1,
                             !.returned = IF r.ext THEN Append(@, r.cur.path) ELSE @]
       /\ UNCHANGED <<pmVars, coreVarsButAM, now, fs, par, imc, mod>>

\* _ipc_worker: imc.send of {"action": "add_to_toplay", ...}, answered "ok"
RaceAddToplay(songs, top) ==
    /\ am.playlist /= <<>>
    /\ Len(ret.accepted) + Len(songs) <= MaxQueue
    /\ qfile' = add_to_toplay(qfile, songs, top)
    /\ ret' = [ret EXCEPT !.accepted = @ \o [k \in 1..Len(songs) |-> songs[k].pat]]
    /\ UNCHANGED <<pmVars, coreVars, now, fs, par, imc, mod>>

InitRace ==
    /\ processes = <<>>
    /\ palive = [p \in Procs |-> "unborn"]
    /\ psig = [p \in Procs |-> "none"]
    /\ lock = NoThread
    /\ thr = [t \in Threads |-> IdleThread]
    /\ clean = FALSE
    /\ InitCoreOnly
    /\ now = [day |-> 1, hour |-> 12]
    /\ qfile = <<>>
    /\ fs = NoDisk
    /\ par = <<>>
    /\ ret = RaceInit
    /\ imc = IMCInit(<<>>)
    /\ mod = <<>>

\* the playlist is loaded by the first step
RaceOnNewPlaylist ==
    /\ am.playlist = <<>>
    /\ am' = on_new_playlist(am, AMPlaylist, <<>>, NoReply)
    /\ UNCHANGED <<pmVars, coreVarsButAM, pureVars>>

NextRace ==
    \/ RaceOnNewPlaylist
    \/ RacePlayRead
    \/ RacePlayWrite
    \/ \E songs \in RaceRequests, top \in BOOLEAN : RaceAddToplay(songs, top)

SpecRace == InitRace /\ [][NextRace]_vars

\* --------------------- the active modifier, songs appended one request at a time
\* the requests of a client that appends songs by their names
NextQueue ==
    \/ \E reply \in Replies : AMOnNewPlaylist(reply)
    \/ \E index \in 0..(Len(AMPlaylist) - 1), h \in ClockHours, dur \in Durations :
            AMPlay(index, Clock(h), dur)
    \/ \E songs \in RaceRequests : AMAddToplay(songs, FALSE)
    \/ AMSkipNext(TRUE)

SpecQueue == InitAM /\ [][NextQueue]_vars

\* ------------------- the control-file player and its control files
\* /tmp/radioPlayer_quit, /tmp/radioPlayer_reload and
\* /tmp/radioPlayer_onplaylist: on disk or not
NoFiles == [quit |-> FALSE, reload |-> FALSE, onplaylist |-> FALSE]
ControlNames == {"quit", "reload", "onplaylist"}

\* the request whose file the player has removed without acting on it
NoControl == [op |-> "control", lost |-> "none"]

\* check_control_files(): the action returned and the files afterwards; the
\* quit file is looked at first, and the file found is removed
ControlAction(files) ==
    IF files.quit THEN [action |-> "quit", files |-> [files EXCEPT !.quit = FALSE]]
    ELSE IF files.reload
    THEN [action |-> "reload", files |-> [files EXCEPT !.reload = FALSE]]
    ELSE [action |-> "none", files |-> files]

\* main acting on an action: exit() runs the finally clause, "reload" goes
\* back to parse_arguments, otherwise the playlists are played
Acted(l, action) ==
    CASE action = "quit" -> [l EXCEPT !.pc = "stop", !.phase = "finally", !.pending = 0]
      [] action = "reload" -> [l EXCEPT !.pc = "args"]
      [] OTHER -> [l EXCEPT !.pc = "playlist"]

\* main after the file played first: action = check_control_files();
\* if can_delete_file("/tmp/radioPlayer_onplaylist"): action = None
main_after_track ==
    LET c == ControlAction(fs)
        action == IF c.files.onplaylist THEN "none" ELSE c.action
    IN /\ leg.pc = "pre_ctl"
       /\ fs' = c.files
       /\ leg' = Acted(leg, action)
       /\ ret' = [ret EXCEPT !.lost = IF action /= c.action THEN c.action ELSE @]
       /\ UNCHANGED <<pmVars, pmeta, sch, am, toplay, adv, env, obs, hist, now, qfile,
                      par, imc, mod>>

\* main after play_playlist of a band list: action = check_control_files();
\* if not can_delete_file("/tmp/radioPlayer_onplaylist"): action = None;
\* a quit or reload that is acted on removes /tmp/radioPlayer_onplaylist
main_after_playlist ==
    LET c == ControlAction(fs)
        action == IF ~c.files.onplaylist THEN "none" ELSE c.action
    IN /\ leg.pc = "pl_ctl"
       /\ fs' = IF action /= "none" THEN [c.files EXCEPT !.onplaylist = FALSE]
                ELSE c.files
       /\ leg' = Acted(leg, action)
       /\ ret' = [ret EXCEPT !.lost = IF action /= c.action THEN c.action ELSE @]
       /\ UNCHANGED <<pmVars, pmeta, sch, am, toplay, adv, env, obs, hist, now, qfile,
                      par, imc, mod>>

\* the operator creates a control file
ControlTouch(name) ==
    /\ leg.pc /= "exited"
    /\ ~fs[name]
    /\ fs' = [fs EXCEPT ![name] = TRUE]
    /\ UNCHANGED <<pmVars, coreVars, now, qfile, par, ret, imc, mod>>

InitControl ==
    /\ processes = <<>>
    /\ palive = [p \in Procs |-> "unborn"]
    /\ psig = [p \in Procs |-> "none"]
    /\ lock = NoThread
    /\ thr = [t \in Threads |-> IdleThread]
    /\ clean = FALSE
    /\ InitCoreOnly
    /\ now = [day |-> 1, hour |-> 12]
    /\ qfile = <<>>
    /\ fs = NoFiles
    /\ par = <<>>
    /\ ret = NoControl
    /\ imc = IMCInit(<<>>)
    /\ mod = <<>>

NextControl ==
    \/ parse_arguments
    \/ play_single_track
    \/ play_single_track_done
    \/ main_after_track
    \/ main_after_playlist
    \/ play_playlist_empty
    \/ play_playlist_return
    \/ play_playlist_tracks
    \/ KeyboardInterrupt
    \/ stop_all_processes
    \/ stop_all_processes_exited
    \/ stop_all_processes_timeout
    \/ LegSecond
    \/ \E p \in Procs : ProcExit(p)
    \/ \E name \in ControlNames : ControlTouch(name)

SpecControl == InitControl /\ [][NextControl]_vars

\* ------------------------------------------------------------ properties
\* the program points at which a thread is inside "with self.lock"
InLock == {"play_append", "ap_reap", "sa_term", "sa_wait", "wa_wait"}

\* C7: once stop_all has returned, and until the next append, the live set is
\* empty and an anything_playing() evaluated then returns false, whatever was
\* live before and whether or not the processes honoured SIGTERM.
C7_StopAllEmptiesLiveSet ==
    /\ clean => processes = <<>>
    /\ \A t \in Threads :
         (thr[t].op = "anything_playing" /\ thr[t].pc = "idle" /\ thr[t].clean)
            => thr[t].res = "false"

\* C7 witness: anything_playing() has returned right after a stop_all that had
\* to kill a process which did not honour the termination request.
C7_Witness ==
    \E t \in Threads :
        /\ thr[t].op = "anything_playing" /\ thr[t].pc = "idle" /\ thr[t].clean
        /\ \E p \in Procs : psig[p] = "kill"

\* C8 (as claimed): once stop_all(timeout) has held the lock for timeout + Eps
\* seconds, no process that was in the live set when it started is alive.
C8_NoneAliveAfterTimeout ==
    \A t \in Threads :
        (/\ thr[t].op = "stop_all"
         /\ thr[t].pc \in {"sa_term", "sa_wait"}
         /\ thr[t].tmo /= <<>>
         /\ thr[t].since >= thr[t].tmo[1] + Eps)
            => \A p \in thr[t].snap : palive[p] /= "running"

\* C9: at most one thread is inside the lock, every change of the live set is
\* made by the thread holding the lock, and a process leaves the live set
\* only after it has exited or has been sent a signal by stop_all/wait_all.
C9_LiveSetSerialised ==
    /\ [](/\ Cardinality({t \in Threads : thr[t].pc \in InLock}) <= 1
          /\ \A t \in Threads : thr[t].pc \in InLock => lock = t)
    /\ [][/\ processes' /= processes => (lock \in Threads /\ thr[lock].pc \in InLock)
          /\ \A p \in Range(processes) \ Range(processes') :
                palive[p] = "exited" \/ psig[p] /= "none"]_vars

\* C9 witness: a thread that has started a decoder waits for the lock while
\* the other thread is inside stop_all, waiting on a live process.
C9_Witness ==
    \E t, u \in Threads :
        /\ thr[t].pc = "sa_wait" /\ lock = t
        /\ thr[u].pc = "play_lock"
        /\ palive[thr[u].p] = "running"
        /\ processes /= <<>>

\* C1: every observer is told of a playlist exactly once, and before it is
\* told of the first track of that playlist; the counts start again at every
\* load, so this holds for the playlist loaded after a reload as well.
C1_PlaylistAnnouncedOnce ==
    \A o \in Observers :
        /\ obs[o].pl <= 1
        /\ obs[o].tr > 0 => obs[o].pl = 1
        /\ sch.pc \in {"boundary", "announce", "spawn", "playing", "sleeping"}
              => obs[o].pl = 1

\* C1 witness: after a reload, the second playlist has been announced once and
\* a track of it has been announced.
C1_Witness ==
    /\ hist.reloads = 1 /\ env.loads = 2
    /\ \A o \in Observers : obs[o].pl = 1 /\ obs[o].tr >= 1

\* C2: a track that is played has been announced exactly once, before any
\* progress call of its step; a progress call carries the track and index
\* announced last; elapsed never exceeds total and never decreases from one
\* progress call of a track to the next.
C2_TrackAnnouncedOnceThenProgress ==
    /\ [](\A o \in Observers :
            /\ sch.pc \in {"spawn", "playing", "sleeping"}
                  => /\ obs[o].nt = 1
                     /\ obs[o].trk = sch.cur.path
                     /\ obs[o].idx = sch.song_i
            /\ sch.pc \in {"playing", "sleeping"}
                  => /\ hist.played /= <<>>
                     /\ hist.played[Len(hist.played)] = obs[o].trk
            /\ sch.pc = "announce" => obs[o].nt = 0 /\ obs[o].pg = 0
            /\ obs[o].pg > 0
                  => /\ obs[o].nt = 1
                     /\ obs[o].ptrk = obs[o].trk
                     /\ obs[o].pidx = obs[o].idx
                     /\ obs[o].el <= obs[o].tot)
    /\ [][\A o \in Observers :
            obs'[o].pg = obs[o].pg + 1 => obs'[o].el >= obs[o].el]_vars

\* C2 witness: an observer has had two progress calls for one track, the
\* second with a larger elapsed.
C2_Witness ==
    \E o \in Observers : obs[o].pg >= 2 /\ obs[o].el >= 1 /\ obs[o].nt = 1

\* C3: a step on which the active modifier returns extend = true raises the
\* loop bound by exactly 1 and leaves song_i as it is, to the end of the step;
\* a step on which it returns ((None, None), None) adds exactly 1 to song_i,
\* starts no process and leaves the live set alone.
C3_ExtendAndSkip ==
    /\ [][(sch.pc = "boundary" /\ sch' /= sch /\ sch'.pc \in {"announce", "boundary"})
            => /\ (StepResult.cur /= NoneT /\ StepResult.ext)
                     => /\ sch'.max_iterator = sch.max_iterator + 1
                        /\ sch'.song_i = sch.song_i
               /\ (StepResult.cur /= NoneT /\ ~StepResult.ext)
                     => sch'.max_iterator = sch.max_iterator
               /\ StepResult.cur = NoneT
                     => /\ sch'.song_i = sch.song_i + 1
                        /\ sch'.pc = "boundary"
                        /\ UNCHANGED <<processes, palive>>]_vars
    /\ [][(sch.pc \in {"spawn", "playing"} /\ sch'.pc = "boundary")
            => sch'.song_i = IF sch.ext THEN sch.song_i ELSE sch.song_i + 1]_vars

\* C3 witness: in one playlist there has been a step that extended and a step
\* that skipped.
C3_Witness == {"skip", "extend"} \subseteq hist.kinds

C10_PopAlways ==
    [][(/\ sch.pc = "boundary" /\ sch' /= sch /\ sch'.pc \in {"announce", "boundary"}
        /\ Expand(toplay) /= <<>>)
          => /\ sch'.pc = "announce"
             /\ sch'.cur.path = Head(Expand(toplay)).pat
             /\ sch'.ext
             /\ toplay' = Tail(Expand(toplay))]_vars

\* C10 (amended): when the queue has an entry and the skip_next flag is off, a
\* call of play() returns the first entry as current' with extend = true,
\* leaves exactly the rest of the queue, in order, in the file, and pushes
\* current_track onto originals unless it is on top; with the queue [J] and the
\* playlist [A, B], undisturbed, the tracks started are J, A, B in this order
\* and the queue is empty from the first of them on.
C10_PopWhenNotSkipping ==
    /\ [][(/\ sch.pc = "boundary" /\ sch' /= sch /\ sch'.pc \in {"announce", "boundary"}
           /\ Expand(toplay) /= <<>>
           /\ ~am.skip_next)
             => /\ sch'.pc = "announce"
                /\ sch'.cur.path = Head(Expand(toplay)).pat
                /\ sch'.cur.official = ~Head(Expand(toplay)).bang
                /\ sch'.ext
                /\ toplay' = Tail(Expand(toplay))
                /\ am'.originals =
                     IF am.originals /= <<>> /\ am.originals[Len(am.originals)] = CurTrack
                     THEN am.originals ELSE Append(am.originals, CurTrack)]_vars
    /\ []((/\ hist.quiet
           /\ hist.q0 = <<Line(FALSE, "J")>>
           /\ [k \in 1..Len(sch.playlist) |-> sch.playlist[k].path] = <<"A", "B">>)
             => /\ \E n \in 0..3 : hist.played = SubSeq(<<"J", "A", "B">>, 1, n)
                /\ hist.played /= <<>> => toplay = <<>>
                /\ (sch.pc = "boundary" /\ sch.i >= sch.max_iterator)
                      => hist.played = <<"J", "A", "B">>)

\* C10 witness: the queue was [J], the playlist [A, B]; J, A and B have been
\* started and the queue is empty.
C10_Witness ==
    /\ hist.quiet
    /\ hist.q0 = <<Line(FALSE, "J")>>
    /\ hist.played = <<"J", "A", "B">>
    /\ toplay = <<>>

\* C4 (as claimed): after a first interrupt, and until a second one, no
\* decoder has been sent a signal: the interrupt stops nothing.
C4_FirstInterruptStopsNothing ==
    leg.ints = 1 => \A p \in Procs : psig[p] = "none"

\* C5 (as claimed): the player stops its decoders and exits on interrupts only
\* by the force quit, that is on a second interrupt and with status 130; any
\* other interrupt does not force-quit.
C5_ForceQuitNeedsSecondInterrupt ==
    (/\ leg.pc = "exited"
     /\ leg.ints >= 1
     /\ \E p \in Procs : psig[p] /= "none")
        => (leg.ints >= 2 /\ leg.status = 130)

\* the hours at which the advisor changes band: late_night/morning,
\* morning/day and day/night
BandBoundaries == {MORNING_START, DAY_START, DAY_END}

\* a track started at t and lasting dur ends past a band boundary of its day,
\* or past midnight
CrossesBand(t, dur) ==
    \/ \E b \in BandBoundaries :
          /\ t < Day(t) * 86400 + b * 3600
          /\ t + dur > Day(t) * 86400 + b * 3600
    \/ Day(t + dur) /= Day(t)

\* C11: with the time-bleed guard enabled, a call of play() whose candidate
\* track lasts more than 5 minutes and would end past a band boundary or past
\* midnight returns ((None, None), None).  The code tests morning_start,
\* day_end and the day only: a 600 s track proposed at 09:55 is played across
\* the morning/day boundary at 10:00.
C11_SkipsAcrossEveryBand ==
    (ret.op = "play" /\ ret.asked /\ ret.dur > 5 * 60 /\ CrossesBand(ret.t, ret.dur))
        => ret.cur = NoneT

\* the songs play() finds in the queue file
Queue == Expand(Entries(qfile))

C13_ClearKeepsFirstEntry ==
    [][ret'.op = "clear_toplay"
          => Entries(qfile') = IF Entries(qfile) = <<>> THEN <<>>
                               ELSE <<Head(Entries(qfile))>>]_vars

\* C14: new_playlist() returns true whenever the clock selects another band
\* list than the band list selected last, and whenever the mtime of the list
\* selected last, the override list included, is past the mtime observed.
\* While the override list is selected and on disk the code answers false
\* before looking at any mtime.
C14_NewPlaylistSeesChanges ==
    (ret.op = "new_playlist" /\ adv.last_playlist /= NoPath)
        => /\ (adv.last_playlist /= OverridePath /\ Selected(now) /= adv.last_playlist)
                => ret.val
           /\ get_playlist_modification_time(fs, adv.last_playlist) > adv.last_mod_time
                => ret.val

\* C15: advise() returns the override list if and only if that file is on
\* disk at the call, and the band list of the clock otherwise.  Once the
\* override list has been advised, custom_playlist is returned by the first
\* statement of every later call, removed from disk or not.
C15_OverrideIffOnDisk ==
    ret.op = "advise"
        => /\ (ret.path = OverridePath) <=> fs.override
           /\ ~fs.override => ret.path = Selected(now)

\* C16: with no override in effect, advise() returns the list <day>/<band> of
\* the clock's day, with band late_night for hours 0..4, morning for 5..9, day
\* for 10..17 and night for 18..23: each hour has exactly one band.
C16_BandTable ==
    (ret.op = "advise" /\ ~fs.override /\ adv.custom_playlist = NoPath)
        => \E b \in Bands :
              /\ ret.path = BandFile(Weekdays[now.day], b)
              /\ b = "late_night" <=> (0 <= now.hour /\ now.hour < 5)
              /\ b = "morning" <=> (5 <= now.hour /\ now.hour < 10)
              /\ b = "day" <=> (10 <= now.hour /\ now.hour < 18)
              /\ b = "night" <=> (18 <= now.hour /\ now.hour <= 23)

\* advise() at 18:00 on a sunday, no override: the night list of sunday
C16_Witness ==
    /\ ret.op = "advise" /\ ~fs.override /\ adv.custom_playlist = NoPath
    /\ now = [day |-> 7, hour |-> 18]
    /\ ret.path = BandFile("sunday", "night")

\* C17: one call of parse() recurses into each @import target at most once,
\* whatever the import graph: no target occurs twice among the recursive
\* calls of _check_for_imports.
C17_EachTargetOnce ==
    ret.op = "parse"
        => \A i, j \in DOMAIN ret.calls : ret.calls[i] = ret.calls[j] => i = j

\* p imports q and r, q imports r and p, r imports q: q and r are each
\* recursed into once, and so is p, the file being parsed
C17_Witness ==
    /\ ret.op = "parse" /\ ret.ok
    /\ par.disk[<<"p">>] = << <<"@", "q">>, <<"@", "r">> >>
    /\ par.disk[<<"q">>] = << <<"@", "r">>, <<"@", "p">> >>
    /\ par.disk[<<"r">>] = << <<"@", "q">> >>
    /\ ret.calls = << <<"q">>, <<"r">>, <<"p">> >>

\* C18: the entries parse() returns come from non-import lines and are in
\* depth-first order: of two entries, the earlier one is reached by the
\* smaller line number at the first file where their ways part, so the lines
\* of one file keep their order and an imported file's lines sit where its
\* @import line is.
C18_DepthFirstOrder ==
    (ret.op = "parse" /\ ret.ok)
        => \A i, j \in DOMAIN ret.out :
              /\ ~StartsWith(ret.out[i].from.line, "@")
              /\ i < j =>
                    \E k \in DOMAIN ret.out[i].from.at \cap DOMAIN ret.out[j].from.at :
                        /\ ret.out[i].from.at[k] < ret.out[j].from.at[k]
                        /\ \A m \in 1..(k - 1) :
                              ret.out[i].from.at[m] = ret.out[j].from.at[m]

\* p is "J, @q", q is "@r, J", r is "J, J": the entries are line 1 of p, the
\* two lines of r, then line 2 of q
C18_Witness ==
    /\ ret.op = "parse" /\ ret.ok
    /\ par.disk[<<"p">>] = <<SongLine, <<"@", "q">> >>
    /\ par.disk[<<"q">>] = << <<"@", "r">>, SongLine>>
    /\ [k \in DOMAIN ret.out |-> ret.out[k].from.at]
          = << <<1>>, <<2, 1, 1>>, <<2, 1, 2>>, <<2, 2>> >>

\* C19: for a playlist with a line that begins with "|", parse() returns a
\* global_args mapping holding every k=v argument of the line and every bare
\* argument as truthy, and the line gives no entry.  The code stores the
\* arguments in the per-line dictionary and appends an entry for the line:
\* global_args is always empty.
C19_GlobalArgs ==
    (ret.op = "parse" /\ ret.ok /\ \E k \in DOMAIN ret.lines : ret.lines[k].line = GlobalLine)
        => /\ [key |-> <<"k">>, val |-> <<"v">>, bare |-> FALSE] \in ret.global_args
           /\ [key |-> <<"b">>, val |-> <<>>, bare |-> TRUE] \in ret.global_args
           /\ \A k \in DOMAIN ret.out : ret.out[k].from.line /= GlobalLine

\* C20: a missing @import target is not fatal: parse() returns, every other
\* line of the parsed file is there (in the order of C18) and nothing comes
\* from the missing target; a missing root file makes parse() raise and
\* return no playlist.
C20_MissingTargetNotFatal ==
    ret.op = "parse"
        => /\ ~OnDisk(par.root) => (~ret.ok /\ ret.out = <<>>)
           /\ OnDisk(par.root) =>
                /\ ret.ok
                /\ \A i \in DOMAIN ReadLines(par.disk, par.root) :
                      LET line == ReadLines(par.disk, par.root)[i]
                      IN /\ line = <<"@", "m">>
                              => \A k \in DOMAIN ret.lines : ret.lines[k].at[1] /= i
                         /\ ~StartsWith(line, "@")
                              => \E k \in DOMAIN ret.lines :
                                    ret.lines[k] = [line |-> line, at |-> <<i>>]

\* p is "@m, J" and m is not on disk: parse() returns the one line J
C20_Witness ==
    /\ ret.op = "parse" /\ ret.ok
    /\ par.disk[<<"p">>] = << <<"@", "m">>, SongLine>>
    /\ ret.lines = <<[line |-> SongLine, at |-> <<2>>]>>
    /\ Len(ret.out) = 1



\* ------------------------------------------------ the inter-module bus
\* C21: a name of the table keeps the module it was first registered with:
\* no step changes or removes an entry, no name is in the table twice, and
\* register(module, name) with a name in the table returns False and leaves
\* the table as it is, while with a new name it returns True and adds it
C21_FirstRegistrationWins ==
    [][/\ \A i \in 1..Len(imc.names_modules) :
            /\ i <= Len(imc'.names_modules)
            /\ imc'.names_modules[i] = imc.names_modules[i]
       /\ \A i, j \in 1..Len(imc'.names_modules) :
            imc'.names_modules[i].name = imc'.names_modules[j].name => i = j
       /\ ret'.op = "register" =>
            IF \E i \in 1..Len(imc.names_modules) :
                  imc.names_modules[i].name = ret'.name
            THEN ret'.value = FALSE /\ imc' = imc
            ELSE /\ ret'.value = TRUE
                 /\ imc'.names_modules =
                      Append(imc.names_modules,
                             [name |-> ret'.name, module |-> ret'.module])
      ]_vars

\* a module asked for a name another module holds, and was refused
C21_Witness ==
    /\ ret.op = "register"
    /\ ret.value = FALSE
    /\ \E i \in 1..Len(imc.names_modules) :
          /\ imc.names_modules[i].name = ret.name
          /\ imc.names_modules[i].module /= ret.module

\* C22: send to a name that is not in the table raises "No such module",
\* calls no handler and changes nothing; send to a name in the table calls
\* the handler of the module registered under it, once, with broadcast
\* False and the data sent, and returns what the handler returned
C22_SendReachesTheEndpoint ==
    [][ret'.op = "send" =>
         IF \A i \in 1..Len(imc.names_modules) :
               imc.names_modules[i].name /= ret'.name
         THEN /\ ret'.raised = "No such module"
              /\ ret'.calls = <<>>
              /\ UNCHANGED <<pmVars, coreVars, imc>>
         ELSE /\ Len(ret'.calls) = 1
              /\ \E i \in 1..Len(imc.names_modules) :
                    /\ imc.names_modules[i].name = ret'.name
                    /\ imc.names_modules[i].module = ret'.calls[1].to
              /\ ~ret'.calls[1].broadcast
              /\ ret'.calls[1].data = ret'.data
              /\ ret'.calls[1].source = ret'.source
              /\ ret'.raised \in {"none", "TypeError"}
              /\ ret'.raised = "none" => ret'.value = ret'.calls[1].returned
      ]_vars

\* with one name in the table, a send to it returned the advisor's advice
C22_Witness ==
    /\ ret.op = "send"
    /\ Len(imc.names_modules) = 1
    /\ ret.raised = "none"
    /\ ret.value = Advice
    /\ Len(ret.calls) = 1
    /\ ret.calls[1].to = "advisor"

\* C23: broadcast(src, data) calls, with broadcast True, the handler of every
\* module registered under a name other than src exactly once, calls no other
\* handler, and returns None whatever the handlers return
C23_BroadcastReachesRegistered ==
    ret.op = "broadcast" =>
       LET endpoints == {imc.names_modules[i].module :
                            i \in 1..Len(imc.names_modules)} \ {ret.source}
       IN /\ \A m \in endpoints :
                Cardinality({i \in 1..Len(ret.calls) : ret.calls[i].to = m}) = 1
          /\ \A i \in 1..Len(ret.calls) :
                /\ ret.calls[i].to \in endpoints
                /\ ret.calls[i].broadcast
                /\ ret.calls[i].data = ret.data
          /\ ret.value = NoneReply

\* C24: a request {"op": k}, k in 0..5, sent to "procman" while the process
\* manager's communicator holds that name is answered with a map carrying
\* k after exactly the matching process manager operation was called; for
\* {"op": 5, "arg": Track} a decoder is started and is in the live set
C24_ProcmanProtocol ==
    [][(/\ ret'.op = "send"
        /\ ret'.name = "procman"
        /\ \E i \in 1..Len(imc.names_modules) :
              imc.names_modules[i] = [name |-> "procman", module |-> "procman"]
        /\ ret'.data.dict
        /\ ret'.data.op /= <<>>
        /\ ret'.data.op[1] \in 0..5)
       => /\ ret'.raised = "none"
          /\ ret'.value.map
          /\ ret'.value.op = ret'.data.op[1]
          /\ ret'.calls[1].called =
                CASE ret'.data.op[1] = 0 -> "none"
                  [] ret'.data.op[1] = 1 -> "_get_audio_duration"
                  [] ret'.data.op[1] = 2 -> "stop_all"
                  [] ret'.data.op[1] = 3 -> "processes"
                  [] ret'.data.op[1] = 4 -> "anything_playing"
                  [] OTHER -> "play"
          /\ (ret'.data.op[1] = 5 /\ ret'.data.arg /= <<>> /\ Unborn /= {})
                => \E p \in Unborn :
                      /\ palive'[p] = "running"
                      /\ p \in Range(processes')
      ]_vars


C26_CrossfadeInitMarks ==
    ret.op = "crossfade_init" =>
       /\ ~ret.returned.none
       /\ Len(ret.returned.out) = Len(ret.playlist)
       /\ \A i \in 1..Len(ret.playlist) :
            LET track == ret.playlist[i]
                hint == CASE track.args.crossfade = "3" -> 3
                          [] track.args.crossfade = "absent" -> 5
                          [] OTHER -> 0
            IN (track.official /\ hint > 0) =>
                  /\ ret.returned.out[i].path = track.path
                  /\ ret.returned.out[i].fade_in = hint
                  /\ ret.returned.out[i].fade_out = hint
                  /\ ret.returned.out[i].fto = -hint

\* an official track with a hint of 3 and one without a hint were marked
C26_Witness ==
    /\ ret.op = "crossfade_init"
    /\ \E i, j \in 1..Len(ret.playlist) :
          /\ ret.playlist[i].official /\ ret.playlist[i].args.crossfade = "3"
          /\ ret.returned.out[i].fade_in = 3
          /\ ret.playlist[j].official /\ ret.playlist[j].args.crossfade = "absent"
          /\ ret.returned.out[j].fto = -5

\* C27: a list the jingle modifier returns does not begin with a jingle (a
\* track that is not official), does not end with one and has no two
\* jingles next to each other
C27_JinglesBetweenTracks ==
    (ret.op = "jingle" /\ ~ret.returned.none /\ ret.returned.out /= <<>>) =>
       LET out == ret.returned.out IN
       /\ out[1].official
       /\ out[Len(out)].official
       /\ \A i \in 1..(Len(out) - 1) : out[i].official \/ out[i + 1].official

\* C28: in a playlist that went through the jingle modifier and then
\* through crossfade-init, the fade_in of every track but the first is at
\* most |focus_time_offset| of the track before it
C28_FadeInWithinOverlap ==
    ret.op = "chain" =>
       \A i \in 2..Len(ret.returned.out) :
          LET fto == ret.returned.out[i - 1].fto IN
          ret.returned.out[i].fade_in <= (IF fto < 0 THEN -fto ELSE fto)

\* C29: play(track) leaves every field of the Track it is given as it was,
\* so the playlist entry is the same before and after
C29_PlayLeavesTrack ==
    ret.op = "play" => (ret.track = ret.given /\ mod[ret.i] = ret.given)


\* ------------------------------------------------ anything_playing
\* C30: anything_playing() leaves in the live set exactly the processes of
\* it that are still running, in their order, and returns true if and only
\* if the live set is not empty afterwards
C30_AnythingPlayingReaps ==
    [][\A t \in Threads :
          (thr[t].pc = "ap_reap" /\ thr'[t].pc = "idle") =>
             /\ processes' = SelectSeq(processes, LAMBDA p : palive[p] = "running")
             /\ thr'[t].res = (IF processes' /= <<>> THEN "true" ELSE "false")
      ]_vars

\* the only decoder exited without being signalled, and anything_playing
\* returned false with the live set empty
C30_Witness ==
    /\ thr["sched"].op = "play"
    /\ thr["imc"].pc = "idle"
    /\ thr["imc"].op = "anything_playing"
    /\ thr["imc"].res = "false"
    /\ processes = <<>>
    /\ palive[1] = "exited"
    /\ psig[1] = "none"
    /\ \A p \in Procs : p /= 1 => palive[p] = "unborn"


\* ------------------------------------------------ play, the probe failing
\* C31: a play() whose duration probe fails returns an error without
\* starting a decoder and without touching the live set, the signals or the
\* lock; a play() that gets past the probe appends the decoder it started
\* and returns it, whatever failed before
C31_ProbeFailureStartsNothing ==
    [][\A t \in Threads :
          /\ (thr[t].pc = "play_probe" /\ thr'[t].pc = "idle") =>
                /\ thr'[t].res = "error"
                /\ processes' = processes
                /\ palive' = palive
                /\ psig' = psig
                /\ lock' = lock
          /\ (thr[t].pc = "play_append" /\ thr'[t].pc = "idle") =>
                /\ thr'[t].res = "ok"
                /\ processes' = Append(processes, thr[t].p)
                /\ palive[thr[t].p] /= "unborn"
      ]_vars

\* the last play of one thread failed and started nothing, the play of the
\* other thread put the first decoder in the live set
C31_Witness ==
    \E t, u \in Threads :
        /\ thr[u].pc = "idle" /\ thr[u].op = "play" /\ thr[u].res = "error"
        /\ thr[t].pc = "idle" /\ thr[t].op = "play" /\ thr[t].res = "ok"
        /\ processes = <<1>>
        /\ palive[1] = "running"
        /\ \A p \in Procs : p /= 1 => palive[p] = "unborn"

\* ------------------------------------------------ a queue played out
\* the paths of the queued songs, then the paths of the playlist
Program(q0, playlist) ==
    [k \in 1..Len(q0) |-> q0[k].pat] \o [k \in 1..Len(playlist) |-> playlist[k].path]

\* C32: a playlist of N >= 1 tracks is driven step by step with a queue of k
\* songs, nothing being added, skipped or failing: the tracks started are the
\* k queued songs in the order of the file, each returned with extend = true,
\* then the N playlist tracks in playlist order without extend, N + k in all
\* when the loop ends; the first playlist track waits alone in originals while
\* the queue is played and is popped from there by the step after the last
\* queued song.
C32_QueueThenPlaylist ==
    /\ []((hist.quiet /\ sch.playlist /= <<>>
              /\ sch.pc \in {"boundary", "announce", "spawn", "playing", "sleeping"})
            => /\ Len(hist.played) <= Len(hist.q0) + Len(sch.playlist)
               /\ hist.played = SubSeq(Program(hist.q0, sch.playlist), 1, Len(hist.played))
               /\ sch.pc \in {"announce", "spawn"}
                     => sch.ext = (Len(hist.played) < Len(hist.q0))
               /\ (sch.pc = "boundary" /\ sch.i >= sch.max_iterator)
                     => Len(hist.played) = Len(hist.q0) + Len(sch.playlist)
               /\ (sch.pc = "boundary" /\ hist.played /= <<>>
                      /\ Len(hist.played) <= Len(hist.q0))
                     => am.originals = <<sch.playlist[1]>>)
    /\ [][(/\ hist.quiet /\ sch.playlist /= <<>>
           /\ sch.pc = "boundary" /\ sch'.pc = "announce"
           /\ hist.q0 /= <<>> /\ Len(hist.played) = Len(hist.q0))
             => /\ sch'.cur = Head(am.originals)
                /\ am'.originals = <<>>
                /\ ~sch'.ext]_vars

\* the queue was [J, K] and the playlist [A, B]: J, K, A and B have been
\* started, four tracks, and the loop has reached its bound
C32_Witness ==
    /\ hist.quiet
    /\ hist.q0 = <<Line(FALSE, "J"), Line(TRUE, "K")>>
    /\ Len(sch.playlist) = 2
    /\ hist.played = <<"J", "K", "A", "B">>
    /\ sch.pc = "boundary"
    /\ sch.i >= sch.max_iterator
    /\ am.originals = <<>>

\* ------------------------------------------------ the focus offset of a substitution
\* the track was built by play(), it is not one of the playlist
Substituted(track) ==
    track /= NoneT /\ \A k \in 1..Len(AMPlaylist) : AMPlaylist[k].path /= track.path

\* C33 (as claimed): every Track built by a substitution, the one returned as
\* current and the one returned as next, has focus_time_offset = -fade_out,
\* and a non-official one returned as current has fade_in = fade_out = 0.
C33_FocusOffsetMirrorsFadeOut ==
    (ret.op = "play" /\ ret.ext)
       => /\ \A track \in {ret.cur, ret.nxt} :
                 Substituted(track) => track.fto = -track.fade_out
          /\ ~ret.cur.official => (ret.cur.fade_in = 0 /\ ret.cur.fade_out = 0)

\* ------------------------------------------------ no queued song is lost
\* how many times x occurs in the list
Count(list, x) == Cardinality({k \in 1..Len(list) : list[k] = x})

\* the songs in the queue file
Queued == [k \in 1..Len(Expand(Entries(qfile))) |-> Expand(Entries(qfile))[k].pat]

\* C34 (as claimed): every song that add_to_toplay has accepted is in the queue
\* file or has been returned once by play() as a substitution, however the
\* two threads interleave: per song, accepted = queued + returned.
C34_NoQueuedSongLost ==
    \A x \in {"J", "K"} :
        Count(ret.accepted, x) = Count(Queued, x) + Count(ret.returned, x)

\* ------------------------------------------------ the originals list
\* C35: with the scheduler proposing playlist[song_i] again after each step
\* that returned extend = true, originals never holds more than one track,
\* whatever is queued, skipped or reloaded in between; it is empty when
\* on_new_playlist returns; so its front (what play() pops) is its top (what
\* play() compares the proposed track with).
C35_OriginalsAtMostOne ==
    /\ [](/\ Len(am.originals) <= 1
          /\ am.originals /= <<>> => Head(am.originals) = am.originals[Len(am.originals)])
    /\ [][(sch.pc = "notify" /\ sch'.pc = "boundary") => am'.originals = <<>>]_vars
    /\ [][(sch.pc = "boundary" /\ sch'.pc = "announce" /\ sch'.ext)
             => am'.originals = <<CurTrack>>]_vars

\* two queued songs have been played in a row for the same playlist track,
\* which is the one track in originals
C35_Witness ==
    /\ hist.played = <<"J", "K">>
    /\ sch.pc = "boundary"
    /\ sch.song_i = 0
    /\ sch.i = 2
    /\ am.originals = <<sch.playlist[1]>>

\* ------------------------------------------------ queued songs and the guard
\* play() is called with a playlist loaded and a song in the queue
QueuedCall == am.playlist /= <<>> /\ Expand(Entries(qfile)) /= <<>>

\* whatever the index, the clock and the duration reported, play() in this
\* state returns the first queued song with extend = true and leaves the
\* guard off
SubstitutesWhatever ==
    \A index \in 0..(Len(AMPlaylist) - 1), h \in ClockHours, dur \in Durations :
        LET r == Play(am, Entries(qfile), index, AMPlaylist[index + 1], AMNext(index),
                      TimeBleed(am, Clock(h), dur))
        IN /\ r.ext
           /\ r.cur.path = Head(Expand(Entries(qfile))).pat
           /\ ~r.st.limit_tracks

\* C36 (as claimed): whenever the queue is not empty, play() returns the first
\* queued song as a substitution with extend = true, whatever the duration
\* and the time of day.
C36_SubstitutesWheneverQueued ==
    QueuedCall => SubstitutesWhatever

\* C36 (amended): whenever the queue is not empty and the skip_next flag is
\* off, play() returns the first queued song as a substitution with
\* extend = true, whatever the duration and the time of day, without reaching
\* the guard; the first call after the queue has drained reaches the guard
\* again when the guard is allowed, and returns ((None, None), None) when the
\* time-bleed test succeeds.
C36_QueuedNeverGuarded ==
    /\ []((QueuedCall /\ ~am.skip_next) => SubstitutesWhatever)
    /\ [][(ret'.op = "play" /\ QueuedCall /\ ~am.skip_next)
             => /\ ret'.ext
                /\ ret'.cur.path = Head(Expand(Entries(qfile))).pat
                /\ ~ret'.asked
                /\ ~am'.limit_tracks]_vars
    /\ [][(/\ ret'.op = "play" /\ am.playlist /= <<>> /\ Expand(Entries(qfile)) = <<>>
           /\ ~am.limit_tracks /\ am.can_limit_tracks)
             => /\ ret'.asked
                /\ am'.limit_tracks
                /\ TimeBleed(am, ret'.t, ret'.dur) => ret'.cur = NoneT]_vars

\* the queue has been drained by a substitution and the call after it, with
\* the first playlist track popped from originals, has been stopped by the
\* guard
C36_Witness ==
    /\ ret.op = "play"
    /\ ret.asked
    /\ TimeBleed(am, ret.t, ret.dur)
    /\ ret.cur = NoneT
    /\ qfile = <<Blank>>
    /\ am.last_track = AMPlaylist[1]
    /\ am.originals = <<>>
    /\ ~am.skip_next

\* ------------------------------------------------ crossfade-init, the hint 0
\* C37 (as claimed): crossfade-init returns a list of the same length with the
\* same paths in the same order, and gives back unchanged every track that is
\* non-official or whose crossfade argument is 0.
C37_ZeroHintIsHardCut ==
    ret.op = "crossfade_init"
       => /\ ~ret.returned.none
          /\ Len(ret.returned.out) = Len(ret.playlist)
          /\ \A k \in 1..Len(ret.playlist) :
                /\ ret.returned.out[k].path = ret.playlist[k].path
                /\ (~ret.playlist[k].official \/ ret.playlist[k].args.crossfade = "0")
                      => ret.returned.out[k] = ret.playlist[k]

\* ------------------------------------------------ reload stability
\* C38 (as claimed): new_playlist() called after advise(), with no tick of the
\* clock, no edit of a list and no change of the override file in between,
\* returns false, and so does every call after it.
C38_UnchangedNeverReloads ==
    /\ [][(ret.op = "advise" /\ ret'.op = "new_playlist") => ~ret'.val]_vars
    /\ [][(ret.op = "new_playlist" /\ ret'.op = "new_playlist")
             => ret'.val = ret.val]_vars

\* ------------------------------------------------ each file once
\* the file that holds the line reached from path by the line numbers at
RECURSIVE FileOf(_, _, _)
FileOf(disk, path, at) ==
    IF Len(at) <= 1 THEN path
    ELSE FileOf(disk, Tail(ReadLines(disk, path)[Head(at)]), Tail(at))

\* the file and the number of the i-th line that _check_for_imports returned
Origin(i) ==
    <<FileOf(par.disk, par.root, ret.lines[i].at),
      ret.lines[i].at[Len(ret.lines[i].at)]>>

\* C39 (as claimed): in one parse() no line of any file, the parsed file
\* included, is returned twice: each file gives its content lines at most once.
C39_EachFileOnce ==
    (ret.op = "parse" /\ ret.ok)
       => \A i, j \in 1..Len(ret.lines) : Origin(i) = Origin(j) => i = j

\* ------------------------------------------------ the control files
\* C40 (as claimed): the player removes a quit or reload file only when it
\* then quits or reloads; while /tmp/radioPlayer_onplaylist is on disk, the
\* check after the file played first acts on no request, and the check at
\* the end of a playlist acts on the request it finds.
C40_ControlFilesHonoured ==
    /\ [](ret.lost = "none")
    /\ [][(leg.pc = "pre_ctl" /\ fs.onplaylist /\ leg'.pc /= leg.pc
              /\ leg'.ints = leg.ints)
             => leg'.pc = "playlist"]_vars
    /\ [][(leg.pc = "pl_ctl" /\ fs.onplaylist /\ leg'.pc /= leg.pc
              /\ leg'.ints = leg.ints)
             => leg'.pc = (IF fs.quit THEN "stop" ELSE IF fs.reload THEN "args"
                           ELSE "playlist")]_vars

====
